---- MODULE Spec2Model ----
(***************************************************************************)
(* OSPFS (src/ospfsmod.c): the free-block bitmap, the block index, the     *)
(* size engine (add_block / remove_block / change_size), file read/write   *)
(* and the namespace operations, modelled over a scaled-down image.        *)
(*                                                                         *)
(* The image is held in typed views: freemap (the bitmap), inodes (the     *)
(* inode table), and per block its contents read as block pointers (ptrs), *)
(* as file bytes (data) or as directory entries (dents).  memset(block, 0) *)
(* clears all three views of the block.                                    *)
(***************************************************************************)
EXTENDS Integers, Sequences, FiniteSets, TLC

VARIABLES freemap, inodes, ptrs, data, dents, last

vars == <<freemap, inodes, ptrs, data, dents, last>>

(***************************************************************************)
(* Compile-time constants of ospfs.h, scaled down.  The relations between  *)
(* them are those of the header.                                           *)
(***************************************************************************)
\* bytes per block (1024 in the reference image)
OSPFS_BLKSIZE == 4
\* direct block pointers per inode (10 in the reference image)
OSPFS_NDIRECT == 2
\* block pointers per indirect block (BLKSIZE / pointer width; 256)
OSPFS_NINDIRECT == 2
OSPFS_MAXFILEBLKS == OSPFS_NDIRECT + OSPFS_NINDIRECT + OSPFS_NINDIRECT * OSPFS_NINDIRECT
\* inodes per inode-table block
OSPFS_BLKINODES == 2
\* first block of the free bitmap
OSPFS_FREEMAP_BLK == 2
\* bytes per directory entry (128 in the reference image)
OSPFS_DIRENTRY_SIZE == 2
OSPFS_FTYPE_REG == 0
OSPFS_FTYPE_DIR == 1
OSPFS_FTYPE_SYMLINK == 2
OSPFS_ROOT_INO == 1
\* number of values of a uint32_t / size_t (2^32 on the 32-bit build), scaled
UINT32_MOD == 64

\* errno values returned (negated) by the handlers
EPERM == -1
ENOENT == -2
EIO == -5
EEXIST == -17
ENOSPC == -28
ENAMETOOLONG == -36
\* the handler did not return: the kernel trapped on a store through NULL
OOPS == -999

(***************************************************************************)
(* The superblock: the geometry of the image.                              *)
(***************************************************************************)
os_nblocks == 25
os_ninodes == 12
os_firstinob == OSPFS_FREEMAP_BLK + 1
\* blocks of the inode table, and the first data block after it
InodeBlocks == (os_ninodes + OSPFS_BLKINODES - 1) \div OSPFS_BLKINODES
FirstData == os_firstinob + InodeBlocks
AllBlocks == 0 .. (os_nblocks - 1)
DataBlocks == FirstData .. (os_nblocks - 1)
\* blocks whose contents the model holds: the data blocks and the boot block
BlockDom == {0} \cup DataBlocks
Inos == 0 .. (os_ninodes - 1)
\* inode-sized slots of the table's blocks: the inodes, then padding
InoSlots == 0 .. (InodeBlocks * OSPFS_BLKINODES - 1)

Min(S) == CHOOSE x \in S : \A y \in S : x <= y

\* F applied to the value of v: v is worked out once, however often F uses it
Bind(v, F(_)) == CHOOSE r \in {F(x) : x \in {v}} : TRUE
MinOf(a, b) == IF a < b THEN a ELSE b

ZeroPtrs == [k \in 0 .. (OSPFS_NINDIRECT - 1) |-> 0]
ZeroData == [k \in 0 .. (OSPFS_BLKSIZE - 1) |-> 0]
EntriesPerBlock == OSPFS_BLKSIZE \div OSPFS_DIRENTRY_SIZE
ZeroEntry == [od_ino |-> 0, od_name |-> <<>>]
ZeroDents == [k \in 0 .. (EntriesPerBlock - 1) |-> ZeroEntry]

\* the image as one value, passed through the handlers
Disk == [freemap |-> freemap, inodes |-> inodes, ptrs |-> ptrs,
         data |-> data, dents |-> dents]

\* memset(ospfs_block(b), 0, OSPFS_BLKSIZE)
memset0(d, b) ==
  [d EXCEPT !.ptrs[b] = ZeroPtrs, !.data[b] = ZeroData, !.dents[b] = ZeroDents]

(***************************************************************************)
(* Bitvector operations and the block allocator.                           *)
(***************************************************************************)
bitvector_set(fm, i) == [fm EXCEPT ![i] = TRUE]
bitvector_clear(fm, i) == [fm EXCEPT ![i] = FALSE]
bitvector_test(fm, i) == fm[i]

\* returns [fm, r]: the bitmap afterwards and the block number, 0 if full
allocate_block(fm) ==
  LET free == {i \in OSPFS_FREEMAP_BLK .. (os_nblocks - 1) : bitvector_test(fm, i)}
  IN IF free = {} THEN [fm |-> fm, r |-> 0]
     ELSE [fm |-> bitvector_clear(fm, Min(free)), r |-> Min(free)]

free_block(fm, blockno) ==
  LET last_inode_block == os_firstinob + OSPFS_BLKINODES
  IN IF blockno >= os_ninodes \/ blockno <= last_inode_block
     THEN fm
     ELSE bitvector_set(fm, blockno)

(***************************************************************************)
(* Helpers: block counts and the block index.                              *)
(***************************************************************************)
ospfs_size2nblocks(size) ==
  ((size + OSPFS_BLKSIZE - 1) % UINT32_MOD) \div OSPFS_BLKSIZE

indir2_index(b) == IF b < OSPFS_NDIRECT + OSPFS_NINDIRECT THEN -1 ELSE 0

indir_index(b) ==
  IF b < OSPFS_NDIRECT THEN -1
  ELSE IF indir2_index(b) = -1 THEN 0
  ELSE (b - (OSPFS_NDIRECT + OSPFS_NINDIRECT)) \div OSPFS_NINDIRECT

direct_index(b) ==
  IF b < OSPFS_NDIRECT THEN b
  ELSE (b - OSPFS_NDIRECT) % OSPFS_NINDIRECT

\* the block holding byte 'offset' of the file, 0 if none.  An offset past
\* the largest file indexes past the end of the doubly-indirect block; the
\* word read there is no block pointer of the file, and 'wild' is the block
\* number the look-up then comes to (0, or some block of the image)
WildBlocks == {0, FirstData}

ospfs_inode_blockno(d, oi, offset, wild) ==
  LET blockno == offset \div OSPFS_BLKSIZE
  IN IF offset >= oi.oi_size \/ oi.oi_ftype = OSPFS_FTYPE_SYMLINK THEN 0
     ELSE IF blockno >= OSPFS_NDIRECT + OSPFS_NINDIRECT
     THEN LET blockoff == blockno - (OSPFS_NDIRECT + OSPFS_NINDIRECT)
              indirect2_block == d.ptrs[oi.oi_indirect2]
              indirect_block == d.ptrs[indirect2_block[blockoff \div OSPFS_NINDIRECT]]
          IN IF blockoff \div OSPFS_NINDIRECT >= OSPFS_NINDIRECT THEN wild
             ELSE indirect_block[blockoff % OSPFS_NINDIRECT]
     ELSE IF blockno >= OSPFS_NDIRECT
     THEN d.ptrs[oi.oi_indirect][blockno - OSPFS_NDIRECT]
     ELSE oi.oi_direct[blockno]

(***************************************************************************)
(* add_block.  'ub' says what the store through the NULL indir_data does   *)
(* (line 874, reached when the indirect block under indirect2 exists):     *)
(* "oops" - the store traps and the handler never returns; "lost" - page 0 *)
(* is mapped, the store lands outside the image and the handler goes on.   *)
(* A kernel panic is the "oops" outcome followed by no further call.       *)
(***************************************************************************)
UBOutcomes == {"oops", "lost"}

add_block_direct(d, ino, n) ==
  LET oi == d.inodes[ino]
      index_direct == direct_index(n)
      a == allocate_block(d.freemap)
  IN IF oi.oi_direct[index_direct] # 0 THEN [d |-> d, r |-> EIO]
     ELSE IF a.r = 0
     THEN [d |-> [d EXCEPT !.freemap = free_block(a.fm, a.r)], r |-> ENOSPC]
     ELSE [d |-> [memset0([d EXCEPT !.freemap = a.fm], a.r)
                    EXCEPT !.inodes[ino].oi_direct[index_direct] = a.r,
                           !.inodes[ino].oi_size = ((n + 1) * OSPFS_BLKSIZE) % UINT32_MOD],
           r |-> 0]

\* ERR_HANDLE: free allocated[INDIR_2_CONST] and allocated[INDIR_1_CONST]
add_block_err(d, alloc2, alloc1) ==
  LET f2 == IF alloc2 # 0 THEN free_block(d.freemap, alloc2) ELSE d.freemap
      f1 == IF alloc1 # 0 THEN free_block(f2, alloc1) ELSE f2
  IN [d |-> [d EXCEPT !.freemap = f1], r |-> ENOSPC]

add_block_indirect2(d, ino, n, ub) ==
  LET oi == d.inodes[ino]
      index_indir == indir_index(n)
      index_direct == direct_index(n)
      a2 == allocate_block(d.freemap)
      need2 == oi.oi_indirect2 = 0
      \* after the indirect2 step
      d1 == IF need2 THEN memset0([d EXCEPT !.freemap = a2.fm], a2.r) ELSE d
      alloc2 == IF need2 THEN a2.r ELSE 0
      double_indir_block == IF need2 THEN a2.r ELSE oi.oi_indirect2
      need1 == d1.ptrs[double_indir_block][index_indir] = 0
      a1 == allocate_block(d1.freemap)
      \* after the indirect step
      d2 == IF need1 THEN memset0([d1 EXCEPT !.freemap = a1.fm], a1.r) ELSE d1
      alloc1 == IF need1 THEN a1.r ELSE 0
      indir_block == alloc1
      a0 == allocate_block(d2.freemap)
      d3 == [d2 EXCEPT !.freemap = a0.fm]
  IN IF need2 /\ a2.r = 0 THEN add_block_err(d, 0, 0)
     ELSE IF need1 /\ a1.r = 0 THEN add_block_err(d1, alloc2, 0)
     ELSE IF ~need1
     THEN \* indir_data is still NULL: indir_data[index_direct] = allocate_block()
          IF ub = "oops" THEN [d |-> d3, r |-> OOPS]
          ELSE IF a0.r = 0 THEN add_block_err(d3, alloc2, alloc1)
          ELSE [d |-> [memset0(d3, a0.r)
                         EXCEPT !.inodes[ino].oi_size =
                                   ((n + 1) * OSPFS_BLKSIZE) % UINT32_MOD],
                r |-> 0]
     ELSE IF a0.r = 0
     THEN add_block_err([d3 EXCEPT !.ptrs[indir_block][index_direct] = 0], alloc2, alloc1)
     ELSE [d |-> [memset0([d3 EXCEPT !.ptrs[indir_block][index_direct] = a0.r], a0.r)
                    EXCEPT !.inodes[ino].oi_size = ((n + 1) * OSPFS_BLKSIZE) % UINT32_MOD,
                           !.inodes[ino].oi_indirect2 = double_indir_block,
                           !.ptrs[double_indir_block][index_indir] = indir_block],
           r |-> 0]

add_block_indirect(d, ino, n) ==
  LET oi == d.inodes[ino]
      index_direct == direct_index(n)
      need1 == oi.oi_indirect = 0
      a1 == allocate_block(d.freemap)
      \* oi->oi_indirect = allocate_block(), then memset
      d1 == IF need1
            THEN memset0([d EXCEPT !.freemap = a1.fm,
                                   !.inodes[ino].oi_indirect = a1.r], a1.r)
            ELSE d
      indir_block == d1.inodes[ino].oi_indirect
      a0 == allocate_block(d1.freemap)
      d2 == [d1 EXCEPT !.freemap = a0.fm, !.ptrs[indir_block][index_direct] = a0.r]
  IN IF need1 /\ a1.r = 0 THEN add_block_err(d, 0, 0)
     ELSE IF a0.r = 0 THEN add_block_err(d2, 0, 0)
     ELSE [d |-> [memset0(d2, a0.r)
                    EXCEPT !.inodes[ino].oi_size = ((n + 1) * OSPFS_BLKSIZE) % UINT32_MOD],
           r |-> 0]

add_block(d, ino, ub) ==
  LET n == ospfs_size2nblocks(d.inodes[ino].oi_size)
  IN IF n = OSPFS_MAXFILEBLKS THEN [d |-> d, r |-> ENOSPC]
     ELSE IF indir_index(n) = -1 THEN add_block_direct(d, ino, n)
     ELSE IF indir2_index(n) = 0 THEN add_block_indirect2(d, ino, n, ub)
     ELSE add_block_indirect(d, ino, n)

(***************************************************************************)
(* remove_block.                                                           *)
(***************************************************************************)
remove_block_direct(d, ino, n) ==
  LET oi == d.inodes[ino]
      index_direct == direct_index(n)
  IN IF oi.oi_direct[index_direct] = 0 THEN [d |-> d, r |-> EIO]
     ELSE [d |-> [d EXCEPT !.freemap = free_block(d.freemap, oi.oi_direct[index_direct]),
                           !.inodes[ino].oi_direct[index_direct] = 0,
                           !.inodes[ino].oi_size = (n * OSPFS_BLKSIZE) % UINT32_MOD],
           r |-> 0]

\* a 32-bit zero stored into word w of block b, whatever the block holds:
\* the word as a block pointer, its bytes, and the directory entry that
\* starts there.  A block past the image is not part of the state.
ZeroWord(d, b, w) ==
  LET wbytes == OSPFS_BLKSIZE \div OSPFS_NINDIRECT
  IN IF b \notin BlockDom THEN d
     ELSE [d EXCEPT !.ptrs[b][w] = 0,
                    !.data[b] = [k \in DOMAIN @ |-> IF k \div wbytes = w THEN 0 ELSE @[k]],
                    !.dents[b][w].od_ino = 0]

\* the part after indir_block is known (ospfs_block never returns NULL).
\* A file block past the largest file has index_indir past the end of the
\* doubly-indirect block: indir_block is then no pointer of the file (the
\* caller passes the wild word), and the store of line 1066 lands in the
\* block that lies index_indir words after the start of the index block.
remove_block_indir(d, ino, n, indir_block, double_indir_block) ==
  LET index_indir2 == indir2_index(n)
      index_indir == indir_index(n)
      index_direct == direct_index(n)
      past == index_indir >= OSPFS_NINDIRECT
      f0 == free_block(d.freemap, d.ptrs[indir_block][index_direct])
      s0 == IF past THEN ZeroWord(d, indir_block, index_direct)
            ELSE [d EXCEPT !.ptrs[indir_block][index_direct] = 0]
      d0 == [s0 EXCEPT !.freemap = f0,
                       !.inodes[ino].oi_size = (n * OSPFS_BLKSIZE) % UINT32_MOD]
      d1 == IF index_indir2 = -1
            THEN [d0 EXCEPT !.freemap = free_block(d0.freemap, indir_block),
                            !.inodes[ino].oi_indirect = 0]
            ELSE IF past
            THEN [ZeroWord(d0, double_indir_block + index_indir \div OSPFS_NINDIRECT,
                           index_indir % OSPFS_NINDIRECT)
                    EXCEPT !.freemap = free_block(d0.freemap, indir_block)]
            ELSE [d0 EXCEPT !.freemap = free_block(d0.freemap, indir_block),
                            !.ptrs[double_indir_block][index_indir] = 0]
      d2 == IF index_indir = 0 /\ index_indir2 = 0
            THEN [d1 EXCEPT !.freemap = free_block(d1.freemap, double_indir_block),
                            !.inodes[ino].oi_indirect2 = 0]
            ELSE d1
  IN [d |-> IF index_direct = 0 THEN d2 ELSE d0, r |-> 0]

remove_block(d, ino, wild) ==
  LET oi == d.inodes[ino]
      n0 == ospfs_size2nblocks(oi.oi_size)
      n == n0 - 1
  IN IF n0 = 0 THEN [d |-> d, r |-> 0]
     ELSE IF indir_index(n) = -1 THEN remove_block_direct(d, ino, n)
     ELSE IF indir2_index(n) = 0
     THEN IF oi.oi_indirect2 = 0 THEN [d |-> d, r |-> EIO]
          ELSE remove_block_indir(d, ino, n,
                                  IF indir_index(n) >= OSPFS_NINDIRECT THEN wild
                                  ELSE d.ptrs[oi.oi_indirect2][indir_index(n)],
                                  oi.oi_indirect2)
     ELSE remove_block_indir(d, ino, n, oi.oi_indirect, 0)

(***************************************************************************)
(* change_size.                                                            *)
(***************************************************************************)
RECURSIVE change_size_grow(_, _, _, _)
\* the first while loop; r is the last add_block result (0 if none ran)
change_size_grow(d, ino, new_size, ub) ==
  IF ospfs_size2nblocks(d.inodes[ino].oi_size) < ospfs_size2nblocks(new_size)
  THEN Bind(add_block(d, ino, ub),
            LAMBDA a : IF a.r # 0 THEN a
                       ELSE change_size_grow(a.d, ino, new_size, ub))
  ELSE [d |-> d, r |-> 0]

RECURSIVE change_size_shrink(_, _, _, _)
\* the second while loop
change_size_shrink(d, ino, new_size, wild) ==
  IF ospfs_size2nblocks(d.inodes[ino].oi_size) > ospfs_size2nblocks(new_size)
  THEN Bind(remove_block(d, ino, wild),
            LAMBDA s : IF s.r = EIO THEN s
                       ELSE change_size_shrink(s.d, ino, new_size, wild))
  ELSE [d |-> d, r |-> 0]

\* after the first loop left g: the second loop and the final size
change_size_finish(g, ino, new_size, wild) ==
  Bind(change_size_shrink(g.d, ino, new_size, wild),
       LAMBDA s : IF s.r = EIO THEN s
                  ELSE [d |-> [s.d EXCEPT !.inodes[ino].oi_size = new_size],
                        r |-> g.r])

change_size(d, ino, want_size, ub, wild) ==
  LET old_size == d.inodes[ino].oi_size
  IN Bind(change_size_grow(d, ino, want_size, ub),
          LAMBDA g : IF g.r = EIO \/ g.r = OOPS THEN g
                     ELSE change_size_finish(
                            g, ino, IF g.r = ENOSPC THEN old_size ELSE want_size,
                            wild))

(***************************************************************************)
(* ospfs_read and ospfs_write.  pos is the caller's file position (loff_t, *)
(* wider than uint32_t, so pos + count itself does not wrap); count and    *)
(* newsize are size_t and the offset handed to ospfs_inode_blockno is a    *)
(* uint32_t.  Both return [r, pos] - the return value and the position     *)
(* afterwards; read also returns the bytes copied out, write the image.    *)
(***************************************************************************)
RECURSIVE read_loop(_, _, _, _, _, _)
\* the copy loop of ospfs_read; out holds the 'amount' bytes copied so far
read_loop(d, oi, count, pos, out, wild) ==
  IF Len(out) >= count THEN [r |-> Len(out), pos |-> pos, out |-> out]
  ELSE LET blockno == ospfs_inode_blockno(d, oi, pos % UINT32_MOD, wild)
           data_offset == pos % OSPFS_BLKSIZE
           n == MinOf(OSPFS_BLKSIZE - data_offset, count - Len(out))
           chunk == [i \in 1 .. n |-> d.data[blockno][data_offset + i - 1]]
       IN IF blockno = 0 THEN [r |-> EIO, pos |-> pos, out |-> out]
          ELSE Bind(out \o chunk,
                    LAMBDA o : read_loop(d, oi, count, pos + n, o, wild))

ospfs_read(d, ino, count, pos, wild) ==
  LET oi == d.inodes[ino]
      cnt == IF pos >= oi.oi_size THEN 0
             ELSE IF pos + count > oi.oi_size THEN oi.oi_size - pos
             ELSE count
  IN IF pos + count < pos THEN [r |-> EIO, pos |-> pos, out |-> <<>>]
     ELSE read_loop(d, oi, cnt, pos, <<>>, wild)

RECURSIVE write_loop(_, _, _, _, _, _)
\* the copy loop of ospfs_write; amount bytes of buffer are already copied
write_loop(d, ino, buffer, pos, amount, wild) ==
  IF amount >= Len(buffer) THEN [d |-> d, r |-> amount, pos |-> pos]
  ELSE LET blockno == ospfs_inode_blockno(d, d.inodes[ino], pos % UINT32_MOD, wild)
           data_offset == pos % OSPFS_BLKSIZE
           n == MinOf(OSPFS_BLKSIZE - data_offset, Len(buffer) - amount)
           block == [j \in 0 .. (OSPFS_BLKSIZE - 1) |->
                       IF j >= data_offset /\ j < data_offset + n
                       THEN buffer[amount + 1 + (j - data_offset)]
                       ELSE d.data[blockno][j]]
       IN IF blockno = 0 THEN [d |-> d, r |-> EIO, pos |-> pos]
          ELSE Bind([d EXCEPT !.data[blockno] = block],
                    LAMBDA d1 : write_loop(d1, ino, buffer, pos + n, amount + n, wild))

ospfs_write(d, ino, buffer, f_pos, append, ub, wild) ==
  LET oi == d.inodes[ino]
      pos == IF append THEN oi.oi_size ELSE f_pos
      newsize == (pos + Len(buffer)) % UINT32_MOD
  IN Bind(IF newsize >= oi.oi_size THEN change_size(d, ino, newsize, ub, wild)
          ELSE [d |-> d, r |-> 0],
          LAMBDA c : IF c.r # 0 THEN [d |-> c.d, r |-> c.r, pos |-> pos]
                     ELSE write_loop(c.d, ino, buffer, pos, 0, wild))

(***************************************************************************)
(* Directories and the namespace operations.  A name is a sequence of      *)
(* character codes.  od is a directory entry's place: block and index.     *)
(***************************************************************************)
\* longest file name and longest symlink target the structures hold
OSPFS_MAXNAMELEN == 6
OSPFS_MAXSYMLINKLEN == OSPFS_NDIRECT + 2
\* uint32_t words of an inode: size, ftype, nlink, mode, direct[], indirect,
\* indirect2
InodeWords == OSPFS_NDIRECT + 6
QMARK == 63
COLON == 58

\* ospfs_inode_data(dir_oi, offset) as a directory entry's place
ospfs_inode_data(d, oi, offset) ==
  [blk |-> ospfs_inode_blockno(d, oi, offset, 0),
   k |-> (offset % OSPFS_BLKSIZE) \div OSPFS_DIRENTRY_SIZE]

EntryAt(d, od) == d.dents[od.blk][od.k]

\* the entry offsets the loops over a directory visit
EntryOffsets(oi) ==
  {off \in 0 .. (oi.oi_size - 1) : off % OSPFS_DIRENTRY_SIZE = 0}

\* find_free_inode scanning from the last inode down
find_free_inode_last(d) ==
  LET free == {i \in 2 .. (os_ninodes - 1) : d.inodes[i].oi_nlink = 0}
  IN IF free = {} THEN 0 ELSE CHOOSE i \in free : \A j \in free : j <= i

find_free_inode(d) ==
  LET free == {i \in 2 .. (os_ninodes - 1) : d.inodes[i].oi_nlink = 0}
  IN IF free = {} THEN 0 ELSE Min(free)

\* offset of the first entry named 'name', -1 if there is none
find_direntry(d, dir_oi, name) ==
  LET hits == {off \in EntryOffsets(dir_oi) :
                 LET e == EntryAt(d, ospfs_inode_data(d, dir_oi, off))
                 IN e.od_ino # 0 /\ e.od_name = name}
  IN IF hits = {} THEN -1 ELSE Min(hits)

\* the d_type values ospfs_dir_readdir hands to filldir
DT_DIR == 4
DT_REG == 8
DT_LNK == 10
DotName == <<46>>
DotDotName == <<46, 46>>

\* one call of filldir: the name, the f_pos, the inode number and the type
Filled(name, pos, ino, type) ==
  [name |-> name, pos |-> pos, ino |-> ino, type |-> type]

RECURSIVE readdir_loop(_, _, _, _, _)
\* the while loop of ospfs_dir_readdir.  out holds the calls of filldir made
\* so far; filldir takes 'room' entries and returns < 0 for the next one,
\* so ok_so_far < 0 exactly when out is longer than room
readdir_loop(d, dir_oi, f_pos, room, out) ==
  LET file_offset == ((f_pos - 2) * OSPFS_DIRENTRY_SIZE) % UINT32_MOD
      od == EntryAt(d, ospfs_inode_data(d, dir_oi, file_offset))
      ftype == d.inodes[od.od_ino].oi_ftype
      file_type == IF ftype = OSPFS_FTYPE_REG THEN DT_REG
                   ELSE IF ftype = OSPFS_FTYPE_DIR THEN DT_DIR
                   ELSE DT_LNK
  IN IF Len(out) > room \/ f_pos < 2 THEN [r |-> 0, f_pos |-> f_pos, out |-> out]
     ELSE IF file_offset >= dir_oi.oi_size THEN [r |-> 1, f_pos |-> f_pos, out |-> out]
     ELSE IF od.od_ino >= os_ninodes \/ od.od_ino = 0
     THEN readdir_loop(d, dir_oi, (f_pos + 1) % UINT32_MOD, room, out)
     ELSE IF ftype \notin {OSPFS_FTYPE_REG, OSPFS_FTYPE_DIR, OSPFS_FTYPE_SYMLINK}
     THEN [r |-> EIO, f_pos |-> f_pos, out |-> out]
     ELSE readdir_loop(d, dir_oi, (f_pos + 1) % UINT32_MOD, room,
                       Append(out, Filled(od.od_name, f_pos, od.od_ino, file_type)))

\* pos is filp->f_pos (a loff_t), parent the inode ".." leads to; returns
\* r, the f_pos stored back into filp and the calls of filldir
ospfs_dir_readdir(d, dirino, parent, pos, room) ==
  LET f0 == pos % UINT32_MOD
      out1 == IF f0 = 0 THEN <<Filled(DotName, f0, dirino, DT_DIR)>> ELSE <<>>
      f1 == IF f0 = 0 /\ Len(out1) <= room THEN f0 + 1 ELSE f0
      dotdot == Len(out1) <= room /\ f1 = 1
      out2 == IF dotdot THEN Append(out1, Filled(DotDotName, f1, parent, DT_DIR))
              ELSE out1
      f2 == IF dotdot /\ Len(out2) <= room THEN f1 + 1 ELSE f1
  IN readdir_loop(d, d.inodes[dirino], f2, room, out2)

\* create_blank_direntry that grows the directory by one byte less than a
\* block
create_blank_direntry_odd_size(d, dirino, ub) ==
  LET dir_oi == d.inodes[dirino]
      blank == {off \in EntryOffsets(dir_oi) :
                  EntryAt(d, ospfs_inode_data(d, dir_oi, off)).od_ino = 0}
      offset == ((dir_oi.oi_size + OSPFS_DIRENTRY_SIZE - 1) \div OSPFS_DIRENTRY_SIZE)
                  * OSPFS_DIRENTRY_SIZE
      new_size == ((ospfs_size2nblocks(dir_oi.oi_size) + 1) * OSPFS_BLKSIZE - 1) % UINT32_MOD
  IN IF dir_oi.oi_ftype # OSPFS_FTYPE_DIR THEN [d |-> d, r |-> EIO, od |-> <<>>]
     ELSE IF blank # {}
     THEN [d |-> d, r |-> 0, od |-> ospfs_inode_data(d, dir_oi, Min(blank))]
     ELSE Bind(change_size(d, dirino, new_size, ub, 0),
               LAMBDA c :
                 IF c.r # 0 THEN [d |-> c.d, r |-> c.r, od |-> <<>>]
                 ELSE Bind([c.d EXCEPT !.inodes[dirino].oi_size = new_size],
                           LAMBDA d1 :
                             [d |-> d1, r |-> 0,
                              od |-> ospfs_inode_data(d1, d1.inodes[dirino], offset)]))

\* returns the image, r (0 or the error) and the blank entry's place
create_blank_direntry(d, dirino, ub) ==
  LET dir_oi == d.inodes[dirino]
      blank == {off \in EntryOffsets(dir_oi) :
                  EntryAt(d, ospfs_inode_data(d, dir_oi, off)).od_ino = 0}
      \* where the search loop stops when it finds nothing
      offset == ((dir_oi.oi_size + OSPFS_DIRENTRY_SIZE - 1) \div OSPFS_DIRENTRY_SIZE)
                  * OSPFS_DIRENTRY_SIZE
      new_size == ((ospfs_size2nblocks(dir_oi.oi_size) + 1) * OSPFS_BLKSIZE) % UINT32_MOD
  IN IF dir_oi.oi_ftype # OSPFS_FTYPE_DIR THEN [d |-> d, r |-> EIO, od |-> <<>>]
     ELSE IF blank # {}
     THEN [d |-> d, r |-> 0, od |-> ospfs_inode_data(d, dir_oi, Min(blank))]
     \* the directory only grows here: the second loop of change_size, the
     \* one that reads index blocks back, has nothing to remove
     ELSE Bind(change_size(d, dirino, new_size, ub, 0),
               LAMBDA c :
                 IF c.r # 0 THEN [d |-> c.d, r |-> c.r, od |-> <<>>]
                 ELSE Bind([c.d EXCEPT !.inodes[dirino].oi_size = new_size],
                           LAMBDA d1 :
                             [d |-> d1, r |-> 0,
                              od |-> ospfs_inode_data(d1, d1.inodes[dirino], offset)]))

\* od->od_ino = ino; memcpy(od->od_name, name, len); od->od_name[len] = 0
SetEntry(d, od, ino, name) ==
  [d EXCEPT !.dents[od.blk][od.k] = [od_ino |-> ino, od_name |-> name]]

ospfs_create(d, dirino, name, mode, ub) ==
  LET dir_oi == d.inodes[dirino]
      entry_ino == find_free_inode(d)
      d1 == [d EXCEPT !.inodes[entry_ino].oi_size = 0,
                      !.inodes[entry_ino].oi_ftype = OSPFS_FTYPE_REG,
                      !.inodes[entry_ino].oi_nlink = 1,
                      !.inodes[entry_ino].oi_mode = mode]
  IN IF dir_oi.oi_ftype # OSPFS_FTYPE_DIR THEN [d |-> d, r |-> EIO]
     ELSE IF Len(name) > OSPFS_MAXNAMELEN THEN [d |-> d, r |-> ENAMETOOLONG]
     ELSE IF find_direntry(d, dir_oi, name) # -1 THEN [d |-> d, r |-> EEXIST]
     ELSE IF entry_ino = 0 THEN [d |-> d, r |-> ENOSPC]
     ELSE Bind(create_blank_direntry(d1, dirino, ub),
               LAMBDA e : IF e.r # 0 THEN [d |-> e.d, r |-> e.r]
                          ELSE [d |-> SetEntry(e.d, e.od, entry_ino, name), r |-> 0])

\* ospfs_link without the "name in use?" test
ospfs_link_any_name(d, dirino, src_ino, name, ub) ==
  LET dir_oi == d.inodes[dirino]
      src_oi == d.inodes[src_ino]
  IN IF dir_oi.oi_ftype # OSPFS_FTYPE_DIR \/ (src_oi.oi_nlink + 1) % UINT32_MOD = 0
     THEN [d |-> d, r |-> EIO]
     ELSE IF Len(name) > OSPFS_MAXNAMELEN THEN [d |-> d, r |-> ENAMETOOLONG]
     ELSE Bind(create_blank_direntry(d, dirino, ub),
               LAMBDA e :
                 IF e.r # 0 THEN [d |-> e.d, r |-> e.r]
                 ELSE [d |-> [SetEntry(e.d, e.od, src_ino, name)
                                EXCEPT !.inodes[src_ino].oi_nlink = (@ + 1) % UINT32_MOD],
                       r |-> 0])

ospfs_link(d, dirino, src_ino, name, ub) ==
  LET dir_oi == d.inodes[dirino]
      src_oi == d.inodes[src_ino]
  IN IF dir_oi.oi_ftype # OSPFS_FTYPE_DIR \/ (src_oi.oi_nlink + 1) % UINT32_MOD = 0
     THEN [d |-> d, r |-> EIO]
     ELSE IF Len(name) > OSPFS_MAXNAMELEN THEN [d |-> d, r |-> ENAMETOOLONG]
     ELSE IF find_direntry(d, dir_oi, name) # -1 THEN [d |-> d, r |-> EEXIST]
     ELSE Bind(create_blank_direntry(d, dirino, ub),
               LAMBDA e :
                 IF e.r # 0 THEN [d |-> e.d, r |-> e.r]
                 ELSE [d |-> [SetEntry(e.d, e.od, src_ino, name)
                                EXCEPT !.inodes[src_ino].oi_nlink = (@ + 1) % UINT32_MOD],
                       r |-> 0])

ospfs_unlink(d, dirino, ino, name, wild) ==
  LET dir_oi == d.inodes[dirino]
      entry_off == find_direntry(d, dir_oi, name)
      od == ospfs_inode_data(d, dir_oi, entry_off)
      d1 == [d EXCEPT !.dents[od.blk][od.k].od_ino = 0,
                      !.inodes[ino].oi_nlink = (@ - 1) % UINT32_MOD,
                      !.inodes[dirino].oi_nlink = (@ - 1) % UINT32_MOD]
  IN IF entry_off = -1 THEN [d |-> d, r |-> ENOENT]
     ELSE Bind(d1,
               LAMBDA d2 :
                 IF d2.inodes[ino].oi_nlink = 0
                      /\ d2.inodes[ino].oi_ftype # OSPFS_FTYPE_SYMLINK
                 THEN [d |-> change_size(d2, ino, 0, "oops", wild).d, r |-> 0]
                 ELSE [d |-> d2, r |-> 0])

(***************************************************************************)
(* Symbolic links.  ospfs_symlink_inode_t shares oi_size, oi_ftype and     *)
(* oi_nlink with ospfs_inode_t; its oi_symlink[] lies over oi_mode, the    *)
(* direct slots, oi_indirect and oi_indirect2, one character per word      *)
(* here.  A character stored past oi_symlink[OSPFS_MAXSYMLINKLEN] lands in *)
(* the next inode of the table.                                            *)
(***************************************************************************)
\* word w of an inode set to val
SetWord(oi, w, val) ==
  IF w = 0 THEN [oi EXCEPT !.oi_size = val]
  ELSE IF w = 1 THEN [oi EXCEPT !.oi_ftype = val]
  ELSE IF w = 2 THEN [oi EXCEPT !.oi_nlink = val]
  ELSE IF w = 3 THEN [oi EXCEPT !.oi_mode = val]
  ELSE IF w < 4 + OSPFS_NDIRECT THEN [oi EXCEPT !.oi_direct[w - 4] = val]
  ELSE IF w = 4 + OSPFS_NDIRECT THEN [oi EXCEPT !.oi_indirect = val]
  ELSE [oi EXCEPT !.oi_indirect2 = val]

\* word w of an inode
GetWord(oi, w) ==
  IF w = 0 THEN oi.oi_size
  ELSE IF w = 1 THEN oi.oi_ftype
  ELSE IF w = 2 THEN oi.oi_nlink
  ELSE IF w = 3 THEN oi.oi_mode
  ELSE IF w < 4 + OSPFS_NDIRECT THEN oi.oi_direct[w - 4]
  ELSE IF w = 4 + OSPFS_NDIRECT THEN oi.oi_indirect
  ELSE oi.oi_indirect2

\* symlink_ino->oi_symlink[k] = ch; a store past the inode lands in the
\* next slot of the table, a store past the table in the first data block
\* (whose pointer and entry views do not show it)
SymlinkStore(d, ino, k, ch) ==
  LET t == ino + (3 + k) \div InodeWords
      w == (3 + k) % InodeWords
      j == (t - InodeBlocks * OSPFS_BLKINODES) * InodeWords + w
  IN IF t \in InoSlots THEN [d EXCEPT !.inodes[t] = SetWord(@, w, ch)]
     ELSE IF j < OSPFS_BLKSIZE THEN [d EXCEPT !.data[FirstData][j] = ch]
     ELSE d

\* symlink_ino->oi_symlink[k] as read back
SymlinkByte(d, ino, k) ==
  LET t == ino + (3 + k) \div InodeWords
      w == (3 + k) % InodeWords
      j == (t - InodeBlocks * OSPFS_BLKINODES) * InodeWords + w
  IN IF t \in InoSlots THEN GetWord(d.inodes[t], w)
     ELSE IF j < OSPFS_BLKSIZE THEN d.data[FirstData][j]
     ELSE 0

RECURSIVE SymlinkCopy_one_short(_, _, _, _)
\* a strncpy that is given a length one too short
SymlinkCopy_one_short(d, ino, k, chars) ==
  IF Len(chars) <= 1 THEN d
  ELSE Bind(SymlinkStore(d, ino, k, Head(chars)),
            LAMBDA d1 : SymlinkCopy_one_short(d1, ino, k + 1, Tail(chars)))

RECURSIVE SymlinkCopy(_, _, _, _)
\* chars[1 ..] stored at oi_symlink[k ..]
SymlinkCopy(d, ino, k, chars) ==
  IF chars = <<>> THEN d
  ELSE Bind(SymlinkStore(d, ino, k, Head(chars)),
            LAMBDA d1 : SymlinkCopy(d1, ino, k + 1, Tail(chars)))

\* strpbrk(s, c): the index of the first c in s, 0 if there is none
strpbrk(str, c) ==
  LET hits == {i \in 1 .. Len(str) : str[i] = c}
  IN IF hits = {} THEN 0 ELSE Min(hits)

\* the part of ospfs_symlink after create_blank_direntry gave the entry od
symlink_store(d, dirino, entry_ino, od, name, symname) ==
  LET qmark == strpbrk(symname, QMARK)
      colon == strpbrk(symname, COLON)
      root_path_len == colon - qmark + 1
      other_path_len == Len(symname) - colon + 1
      cond_size == Len(symname) - qmark + 2
      \* conditional: "?root", 0, ":other", then 0 at oi_symlink[oi_size]
      c1 == [d EXCEPT !.inodes[entry_ino].oi_size = cond_size]
      c2 == SymlinkCopy(c1, entry_ino, 0, SubSeq(symname, qmark, colon - 1))
      c3 == SymlinkStore(c2, entry_ino, root_path_len - 1, 0)
      c4 == SymlinkCopy(c3, entry_ino, root_path_len, SubSeq(symname, colon, Len(symname)))
      c5 == SymlinkStore(c4, entry_ino, cond_size, 0)
      \* plain: the target, then 0 at oi_symlink[oi_size]
      p1 == [d EXCEPT !.inodes[entry_ino].oi_size = Len(symname)]
      p2 == SymlinkCopy(p1, entry_ino, 0, symname)
      p3 == SymlinkStore(p2, entry_ino, Len(symname), 0)
      conditional == qmark # 0 /\ colon # 0 /\ colon > qmark
  IN IF conditional /\ root_path_len + other_path_len > OSPFS_MAXNAMELEN
     THEN [d |-> d, r |-> ENAMETOOLONG]
     ELSE IF ~conditional /\ Len(symname) > OSPFS_MAXSYMLINKLEN
     THEN [d |-> d, r |-> ENAMETOOLONG]
     ELSE Bind(IF conditional THEN c5 ELSE p3,
               LAMBDA s :
                 [d |-> [SetEntry(s, od, entry_ino, name)
                           EXCEPT !.inodes[entry_ino].oi_ftype = OSPFS_FTYPE_SYMLINK,
                                  !.inodes[entry_ino].oi_nlink = 1,
                                  !.inodes[dirino].oi_nlink = (@ + 1) % UINT32_MOD],
                  r |-> 0])

\* ospfs_symlink without the "name in use?" test
ospfs_symlink_any_name(d, dirino, name, symname, ub) ==
  LET dir_oi == d.inodes[dirino]
      entry_ino == find_free_inode(d)
  IN IF dir_oi.oi_ftype # OSPFS_FTYPE_DIR THEN [d |-> d, r |-> EIO]
     ELSE IF Len(name) > OSPFS_MAXNAMELEN THEN [d |-> d, r |-> ENAMETOOLONG]
     ELSE IF entry_ino = 0 THEN [d |-> d, r |-> ENOSPC]
     ELSE Bind(create_blank_direntry(d, dirino, ub),
               LAMBDA e :
                 IF e.r # 0 THEN [d |-> e.d, r |-> e.r]
                 ELSE symlink_store(e.d, dirino, entry_ino, e.od, name, symname))

ospfs_symlink(d, dirino, name, symname, ub) ==
  LET dir_oi == d.inodes[dirino]
      entry_ino == find_free_inode(d)
  IN IF dir_oi.oi_ftype # OSPFS_FTYPE_DIR THEN [d |-> d, r |-> EIO]
     ELSE IF Len(name) > OSPFS_MAXNAMELEN THEN [d |-> d, r |-> ENAMETOOLONG]
     ELSE IF find_direntry(d, dir_oi, name) # -1 THEN [d |-> d, r |-> EEXIST]
     ELSE IF entry_ino = 0 THEN [d |-> d, r |-> ENOSPC]
     ELSE Bind(create_blank_direntry(d, dirino, ub),
               LAMBDA e :
                 IF e.r # 0 THEN [d |-> e.d, r |-> e.r]
                 ELSE symlink_store(e.d, dirino, entry_ino, e.od, name, symname))

RECURSIVE CStr(_, _, _)
\* the C string at oi_symlink + k: the characters up to the first 0
CStr(d, ino, k) ==
  IF SymlinkByte(d, ino, k) = 0 THEN <<>>
  ELSE <<SymlinkByte(d, ino, k)>> \o CStr(d, ino, k + 1)

\* returns r (0 or the error) and the path handed to nd_set_link
ospfs_follow_link(d, ino, uid) ==
  LET oi == d.inodes[ino]
      \* where "while (*off != 0) off++" stops, as off - oi->oi_symlink
      off == Len(CStr(d, ino, 0))
  IN IF SymlinkByte(d, ino, 0) = QMARK
     THEN IF uid = 0 THEN [r |-> 0, link |-> CStr(d, ino, 1)]
          ELSE IF SymlinkByte(d, ino, off + 1) # COLON \/ off >= oi.oi_size
          THEN [r |-> EIO, link |-> <<>>]
          ELSE [r |-> 0, link |-> CStr(d, ino, off + 2)]
     ELSE [r |-> 0, link |-> CStr(d, ino, 0)]

\* the ATTR_SIZE part of ospfs_notify_change
ospfs_notify_change(d, ino, ia_size, ub, wild) ==
  IF d.inodes[ino].oi_ftype = OSPFS_FTYPE_DIR THEN [d |-> d, r |-> EPERM]
  ELSE change_size(d, ino, ia_size, ub, wild)

(***************************************************************************)
(* The record of the last call: what the host passed in (a, n, append,      *)
(* name), what it got back (ret, pos, out) and how many calls came before. *)
(***************************************************************************)
NoCall ==
  [op |-> "none", ino |-> 0, a |-> 0, n |-> 0, append |-> FALSE, seq |-> 0,
   name |-> <<>>, ret |-> 0, pos |-> 0, out |-> <<>>, osize |-> 0, made |-> {}]

Call(op, ino, a, ret, osize) ==
  [NoCall EXCEPT !.op = op, !.ino = ino, !.a = a, !.ret = ret, !.osize = osize]

\* the image after a call, and its record
Commit(d, call) ==
  /\ freemap' = d.freemap
  /\ inodes' = d.inodes
  /\ ptrs' = d.ptrs
  /\ data' = d.data
  /\ dents' = d.dents
  /\ last' = call

(***************************************************************************)
(* Well-formed images.  A free inode is all zero; the root directory is    *)
(* inode 1.  A pre-built regular file of n blocks occupies the lowest data *)
(* blocks in the order sequential growth needs them.                       *)
(***************************************************************************)
FreeInode ==
  [oi_size |-> 0, oi_ftype |-> OSPFS_FTYPE_REG, oi_nlink |-> 0, oi_mode |-> 0,
   oi_direct |-> [k \in 0 .. (OSPFS_NDIRECT - 1) |-> 0],
   oi_indirect |-> 0, oi_indirect2 |-> 0]

RootInode == [FreeInode EXCEPT !.oi_ftype = OSPFS_FTYPE_DIR, !.oi_nlink = 1]

\* the inode the size-engine and file-I/O specifications work on
FileIno == 3

\* free data blocks left beside the pre-built file
MaxFree == 4

\* block numbers of the pre-built file's parts
BuiltIndirect == FirstData + OSPFS_NDIRECT
BuiltIndirect2 == BuiltIndirect + OSPFS_NINDIRECT + 1
BuiltIndir(k) == BuiltIndirect2 + 1 + k * (OSPFS_NINDIRECT + 1)
BuiltData(b) ==
  IF b < OSPFS_NDIRECT THEN FirstData + b
  ELSE IF b < OSPFS_NDIRECT + OSPFS_NINDIRECT
  THEN BuiltIndirect + 1 + (b - OSPFS_NDIRECT)
  ELSE BuiltIndir(indir_index(b)) + 1 + direct_index(b)
\* the first block after a pre-built file of n blocks
BuiltEnd(n) == IF n = 0 THEN FirstData ELSE BuiltData(n - 1) + 1

BuiltInode(n, size) ==
  [FreeInode EXCEPT
     !.oi_size = size,
     !.oi_nlink = 1,
     !.oi_direct = [k \in 0 .. (OSPFS_NDIRECT - 1) |-> IF k < n THEN BuiltData(k) ELSE 0],
     !.oi_indirect = IF n > OSPFS_NDIRECT THEN BuiltIndirect ELSE 0,
     !.oi_indirect2 = IF n > OSPFS_NDIRECT + OSPFS_NINDIRECT THEN BuiltIndirect2 ELSE 0]

BuiltPtrs(n) ==
  [b \in BlockDom |->
     IF b = BuiltIndirect /\ n > OSPFS_NDIRECT
     THEN [j \in 0 .. (OSPFS_NINDIRECT - 1) |->
             IF OSPFS_NDIRECT + j < n THEN BuiltData(OSPFS_NDIRECT + j) ELSE 0]
     ELSE IF b = BuiltIndirect2 /\ n > OSPFS_NDIRECT + OSPFS_NINDIRECT
     THEN [k \in 0 .. (OSPFS_NINDIRECT - 1) |->
             IF OSPFS_NDIRECT + OSPFS_NINDIRECT + k * OSPFS_NINDIRECT < n
             THEN BuiltIndir(k) ELSE 0]
     ELSE IF \E k \in 0 .. (OSPFS_NINDIRECT - 1) :
                /\ b = BuiltIndir(k)
                /\ OSPFS_NDIRECT + OSPFS_NINDIRECT + k * OSPFS_NINDIRECT < n
     THEN LET k == CHOOSE k \in 0 .. (OSPFS_NINDIRECT - 1) : b = BuiltIndir(k)
          IN [j \in 0 .. (OSPFS_NINDIRECT - 1) |->
                IF OSPFS_NDIRECT + OSPFS_NINDIRECT + k * OSPFS_NINDIRECT + j < n
                THEN BuiltData(OSPFS_NDIRECT + OSPFS_NINDIRECT + k * OSPFS_NINDIRECT + j)
                ELSE 0]
     ELSE ZeroPtrs]

\* the bytes found in a file that was written before
OldByte == 7

BuiltBytes(n) ==
  [b \in BlockDom |->
     IF \E k \in 0 .. (n - 1) : b = BuiltData(k)
     THEN [j \in 0 .. (OSPFS_BLKSIZE - 1) |-> OldByte]
     ELSE ZeroData]

\* an image holding the root directory, a file of n blocks and f free blocks;
\* the other data blocks belong to files the model does not follow
InitImage(n, size, f) ==
  /\ freemap = [b \in AllBlocks |-> b >= BuiltEnd(n) /\ b < BuiltEnd(n) + f]
  /\ inodes = [i \in InoSlots |->
                 IF i = OSPFS_ROOT_INO THEN RootInode
                 ELSE IF i = FileIno THEN BuiltInode(n, size)
                 ELSE FreeInode]
  /\ ptrs = BuiltPtrs(n)
  /\ data = BuiltBytes(n)
  /\ dents = [b \in BlockDom |-> ZeroDents]
  /\ last = NoCall

(***************************************************************************)
(* SpecSize: the size engine on one regular file.                          *)
(***************************************************************************)
\* the sizes tried: every block count up to one past the maximum, as a whole
\* number of blocks and one byte short of it, and the largest uint32_t
WantSizes ==
  {n * OSPFS_BLKSIZE : n \in 0 .. (OSPFS_MAXFILEBLKS + 1)}
    \cup {n * OSPFS_BLKSIZE - 1 : n \in 1 .. (OSPFS_MAXFILEBLKS + 1)}
    \cup {UINT32_MOD - 1}

InitSize ==
  \E n \in 0 .. OSPFS_MAXFILEBLKS, f \in 0 .. MaxFree :
    \E size \in WantSizes :
      /\ size <= OSPFS_MAXFILEBLKS * OSPFS_BLKSIZE
      /\ ospfs_size2nblocks(size) = n
      /\ InitImage(n, size, f)

ChangeSize ==
  \E want \in WantSizes, ub \in UBOutcomes, wild \in WildBlocks :
    \E c \in {change_size(Disk, FileIno, want, ub, wild)} :
      Commit(c.d, Call("change_size", FileIno, want, c.r, 0))

AddBlock ==
  \E ub \in UBOutcomes :
    \E c \in {add_block(Disk, FileIno, ub)} :
      Commit(c.d, Call("add_block", FileIno, 0, c.r, 0))

RemoveBlock ==
  \E wild \in WildBlocks :
    \E c \in {remove_block(Disk, FileIno, wild)} :
      Commit(c.d, Call("remove_block", FileIno, 0, c.r, 0))

NextSize == ChangeSize \/ AddBlock \/ RemoveBlock

SpecSize == InitSize /\ [][NextSize]_vars

(***************************************************************************)
(* SpecIO: reads and writes of one regular file.                           *)
(***************************************************************************)
\* calls made in one run
MaxCalls == 2

\* the bytes the caller writes: 1 2 3 1 2 3 ...
Buf(count) == [i \in 1 .. count |-> 1 + ((i - 1) % 3)]

\* positions and lengths tried: block starts and ends, several blocks, a
\* length that reaches the second leaf of the doubly-indirect tree, and a
\* position so near the largest uint32_t that position + length wraps
WritePos == {0, OSPFS_BLKSIZE - 1, UINT32_MOD - 2}
Counts == {0, 1, OSPFS_BLKSIZE + 1, (OSPFS_NDIRECT + OSPFS_NINDIRECT + 2) * OSPFS_BLKSIZE}
ReadPos == {0, OSPFS_BLKSIZE - 1, OSPFS_NDIRECT * OSPFS_BLKSIZE + 1}

\* the files the runs start from: empty, direct, indirect, doubly-indirect
IOBlocks == {0, 1, OSPFS_NDIRECT + 1, OSPFS_NDIRECT + OSPFS_NINDIRECT + 1}

InitIO ==
  \E n \in IOBlocks, f \in 0 .. MaxFree :
    \E size \in {n * OSPFS_BLKSIZE, n * OSPFS_BLKSIZE - 1} :
      /\ size >= 0
      /\ ospfs_size2nblocks(size) = n
      /\ InitImage(n, size, f)

IOCall(op, a, n, append, r) ==
  [NoCall EXCEPT !.op = op, !.ino = FileIno, !.a = a, !.n = n, !.append = append,
                 !.ret = r.r, !.pos = r.pos, !.seq = last.seq + 1]

Write ==
  /\ last.seq < MaxCalls
  /\ \E f_pos \in WritePos, count \in Counts, append \in BOOLEAN,
        ub \in UBOutcomes, wild \in WildBlocks :
       \E w \in {ospfs_write(Disk, FileIno, Buf(count), f_pos, append, ub, wild)} :
         Commit(w.d, IOCall("write", f_pos, count, append, w))

Read ==
  /\ last.seq < MaxCalls
  /\ \E f_pos \in ReadPos \cup {inodes[FileIno].oi_size},
        count \in {1, OSPFS_BLKSIZE + 1, inodes[FileIno].oi_size},
        wild \in WildBlocks :
       \E r \in {ospfs_read(Disk, FileIno, count, f_pos, wild)} :
         Commit(Disk, [IOCall("read", f_pos, count, FALSE, r) EXCEPT !.out = r.out])

NextIO == Write \/ Read

SpecIO == InitIO /\ [][NextIO]_vars

(***************************************************************************)
(* SpecDir: readdir on a root directory of up to MaxDirEntries entries.     *)
(* Each entry is empty or leads to a regular file, a directory, a symlink  *)
(* or an inode whose oi_ftype is none of the three.  last.pos is the       *)
(* host's file position, which readdir starts from and stores back.        *)
(***************************************************************************)
MaxDirEntries == 3

\* the inodes of the image: 2 a file, 3 a directory, 4 a symlink, 5 an
\* inode with an unknown type
BadFtype == OSPFS_FTYPE_SYMLINK + 1
DirImageInos == {0, 2, 3, 4, 5}
DirImageInode(i) ==
  IF i = 2 THEN [FreeInode EXCEPT !.oi_nlink = 1]
  ELSE IF i = 3 THEN RootInode
  ELSE IF i = 4 THEN [FreeInode EXCEPT !.oi_nlink = 1, !.oi_size = 1,
                                        !.oi_ftype = OSPFS_FTYPE_SYMLINK,
                                        !.oi_mode = 120]
  ELSE IF i = 5 THEN [FreeInode EXCEPT !.oi_nlink = 1, !.oi_ftype = BadFtype]
  ELSE FreeInode

\* the name in the e-th entry
DirName(e) == <<110 + e>>

InitDir ==
  \E n \in 0 .. MaxDirEntries :
    \E inos \in [0 .. (n - 1) -> DirImageInos] :
      LET nb == ospfs_size2nblocks(n * OSPFS_DIRENTRY_SIZE)
      IN /\ freemap = [b \in AllBlocks |-> b >= BuiltEnd(nb)]
         /\ inodes = [i \in InoSlots |->
                        IF i = OSPFS_ROOT_INO
                        THEN [BuiltInode(nb, n * OSPFS_DIRENTRY_SIZE)
                                EXCEPT !.oi_ftype = OSPFS_FTYPE_DIR]
                        ELSE DirImageInode(i)]
         /\ ptrs = BuiltPtrs(nb)
         /\ data = [b \in BlockDom |-> ZeroData]
         /\ dents = [b \in BlockDom |->
                       IF \E k \in 0 .. (nb - 1) : b = BuiltData(k)
                       THEN LET k == CHOOSE k \in 0 .. (nb - 1) : b = BuiltData(k)
                            IN [j \in 0 .. (EntriesPerBlock - 1) |->
                                  IF k * EntriesPerBlock + j < n
                                  THEN [od_ino |-> inos[k * EntriesPerBlock + j],
                                        od_name |-> DirName(k * EntriesPerBlock + j)]
                                  ELSE ZeroEntry]
                       ELSE ZeroDents]
         /\ last = NoCall

\* how many entries the caller's buffer takes in one call
Rooms == {1, 2, MaxDirEntries + 2}

\* file positions the host seeks to: the start, the first entry, and two
\* that do not fit the uint32_t arithmetic of ospfs_dir_readdir
SeekPos == {0, 2, UINT32_MOD \div OSPFS_DIRENTRY_SIZE + 2, UINT32_MOD}

Readdir ==
  \E room \in Rooms :
    \E c \in {ospfs_dir_readdir(Disk, OSPFS_ROOT_INO, OSPFS_ROOT_INO, last.pos, room)} :
      Commit(Disk, [NoCall EXCEPT !.op = "readdir", !.ino = OSPFS_ROOT_INO,
                                  !.a = last.pos, !.n = room, !.ret = c.r,
                                  !.pos = c.f_pos, !.out = c.out])

Seek ==
  \E p \in SeekPos :
    Commit(Disk, [NoCall EXCEPT !.op = "seek", !.pos = p])

NextDir == Readdir \/ Seek

SpecDir == InitDir /\ [][NextDir]_vars

\* a host that only keeps calling readdir
SpecDirLive == InitDir /\ [][Readdir]_vars /\ WF_vars(Readdir)

(***************************************************************************)
(* Spec: the namespace operations, writes and truncations on an image that *)
(* holds the root directory and one regular file "f".                      *)
(***************************************************************************)
\* operations made in one run
MaxOps == 3

\* the mode bits passed to create
Mode == 1

\* "f", the file the image starts with, "a", "b", and a name one character
\* too long
NameF == <<102>>
LongName == [i \in 1 .. (OSPFS_MAXNAMELEN + 1) |-> 97]
Names == {NameF, <<97>>, <<98>>, LongName}

\* symlink targets: "x", "xyz", the conditional "r?a:b" and "?a:bc", and
\* "?x", which starts like a stored conditional target but has no ':';
\* "xyzxy" and "?ab:cde" are longer than the two limits of ospfs_symlink
Targets ==
  {<<120>>, <<120, 121, 122>>, <<114, QMARK, 97, COLON, 98>>,
   <<QMARK, 97, COLON, 98, 99>>, <<QMARK, 120>>,
   <<120, 121, 122, 120, 121>>, <<QMARK, 97, 98, COLON, 99, 100, 101>>}

\* the callers' user ids: root and another user
Uids == {0, 1}

\* block counts of "f" at the start
FSBlocks == {0, OSPFS_NDIRECT, OSPFS_MAXFILEBLKS - 1}

\* sizes asked of truncate and lengths written
FSSizes == {0, (OSPFS_NDIRECT + 1) * OSPFS_BLKSIZE}

\* a root directory of one block that holds "f", a file of n blocks
InitSmall ==
  \E n \in FSBlocks :
    LET rootblk == BuiltEnd(n)
    IN /\ freemap = [b \in AllBlocks |-> b > rootblk]
       /\ inodes = [i \in InoSlots |->
                      IF i = OSPFS_ROOT_INO
                      THEN [RootInode EXCEPT !.oi_size = OSPFS_BLKSIZE,
                                             !.oi_direct[0] = rootblk]
                      ELSE IF i = FileIno THEN BuiltInode(n, n * OSPFS_BLKSIZE)
                      ELSE FreeInode]
       /\ ptrs = BuiltPtrs(n)
       /\ data = BuiltBytes(n)
       /\ dents = [b \in BlockDom |->
                     IF b = rootblk
                     THEN [k \in 0 .. (EntriesPerBlock - 1) |->
                             IF k = 0 THEN [od_ino |-> FileIno, od_name |-> NameF]
                             ELSE ZeroEntry]
                     ELSE ZeroDents]
       /\ last = NoCall

\* blocks of a directory whose next block goes under the indirect block
\* that indirect2 already has
DirFullBlocks == OSPFS_NDIRECT + OSPFS_NINDIRECT + 1
\* the e-th entry of the full directory: one empty file per inode, "f" for
\* FileIno, further hard links to FileIno once the inodes run out
FullEntry(e) ==
  [od_ino |-> IF 2 + e < os_ninodes THEN 2 + e ELSE FileIno,
   od_name |-> IF 2 + e = FileIno THEN NameF ELSE <<110 + e>>]
FullEntries == 0 .. (DirFullBlocks * EntriesPerBlock - 1)

\* a root directory grown to DirFullBlocks blocks with every entry in use
InitFull ==
  /\ freemap = [b \in AllBlocks |-> b >= BuiltEnd(DirFullBlocks)]
  /\ inodes = [i \in InoSlots |->
                 IF i = OSPFS_ROOT_INO
                 THEN [BuiltInode(DirFullBlocks, DirFullBlocks * OSPFS_BLKSIZE)
                         EXCEPT !.oi_ftype = OSPFS_FTYPE_DIR]
                 ELSE [FreeInode EXCEPT !.oi_nlink =
                         Cardinality({e \in FullEntries : FullEntry(e).od_ino = i})]]
  /\ ptrs = BuiltPtrs(DirFullBlocks)
  /\ data = [b \in BlockDom |-> ZeroData]
  /\ dents = [b \in BlockDom |->
                IF \E k \in 0 .. (DirFullBlocks - 1) : b = BuiltData(k)
                THEN LET k == CHOOSE k \in 0 .. (DirFullBlocks - 1) : b = BuiltData(k)
                     IN [j \in 0 .. (EntriesPerBlock - 1) |->
                           FullEntry(k * EntriesPerBlock + j)]
                ELSE ZeroDents]
  /\ last = NoCall

Init == InitSmall \/ InitFull

\* ospfs_dir_lookup: the inode number the directory gives for a name, 0 for
\* a negative dentry
ospfs_dir_lookup(d, dirino, name) ==
  LET dir_oi == d.inodes[dirino]
      hits == {off \in EntryOffsets(dir_oi) :
                 LET od == EntryAt(d, ospfs_inode_data(d, dir_oi, off))
                 IN od.od_ino > 0 /\ od.od_name = name}
  IN IF Len(name) > OSPFS_MAXNAMELEN THEN ENAMETOOLONG
     ELSE IF hits = {} THEN 0
     ELSE EntryAt(d, ospfs_inode_data(d, dir_oi, Min(hits))).od_ino

\* the inode the root directory gives for a name, 0 if none: the look-up
\* the host makes before it calls link, unlink, write or truncate
LookupIno(name) ==
  LET dir_oi == inodes[OSPFS_ROOT_INO]
      off == find_direntry(Disk, dir_oi, name)
  IN IF off = -1 THEN 0 ELSE EntryAt(Disk, ospfs_inode_data(Disk, dir_oi, off)).od_ino

IsRegular(ino) == ino # 0 /\ inodes[ino].oi_ftype = OSPFS_FTYPE_REG

\* the record of a call; 'made' remembers, for each inode that was last
\* set up by ospfs_symlink, the target it was given
FSCall(op, ino, name, a, n, r) ==
  [NoCall EXCEPT !.op = op, !.ino = ino, !.name = name, !.a = a, !.n = n,
                 !.ret = r, !.seq = last.seq + 1, !.made = last.made]

Create ==
  /\ last.seq < MaxOps
  /\ \E name \in Names, ub \in UBOutcomes :
       \E c \in {ospfs_create(Disk, OSPFS_ROOT_INO, name, Mode, ub)} :
         Commit(c.d, [FSCall("create", 0, name, 0, 0, c.r) EXCEPT
                        !.made = IF c.r = 0
                                 THEN {m \in @ : m[1] # find_free_inode(Disk)}
                                 ELSE @])

Link ==
  /\ last.seq < MaxOps
  /\ \E src \in Names, name \in Names, ub \in UBOutcomes :
       /\ LookupIno(src) # 0
       /\ inodes[LookupIno(src)].oi_ftype # OSPFS_FTYPE_DIR
       /\ \E c \in {ospfs_link(Disk, OSPFS_ROOT_INO, LookupIno(src), name, ub)} :
            Commit(c.d, FSCall("link", LookupIno(src), name, 0, 0, c.r))

Unlink ==
  /\ last.seq < MaxOps
  /\ \E name \in Names, wild \in WildBlocks :
       /\ LookupIno(name) # 0
       /\ \E c \in {ospfs_unlink(Disk, OSPFS_ROOT_INO, LookupIno(name), name, wild)} :
            Commit(c.d, FSCall("unlink", LookupIno(name), name, 0, 0, c.r))

Symlink ==
  /\ last.seq < MaxOps
  /\ \E name \in Names, symname \in Targets, ub \in UBOutcomes :
       \E c \in {ospfs_symlink(Disk, OSPFS_ROOT_INO, name, symname, ub)} :
         Commit(c.d, [FSCall("symlink", find_free_inode(Disk), name, 0, 0, c.r) EXCEPT
                        !.out = symname,
                        !.made = IF c.r = 0
                                 THEN {m \in @ : m[1] # find_free_inode(Disk)}
                                        \cup {<<find_free_inode(Disk), symname>>}
                                 ELSE @])

\* the host resolves a name that leads to a symlink; the call changes
\* nothing and is not counted
FollowLink ==
  \E name \in Names, uid \in Uids :
    /\ LookupIno(name) # 0
    /\ inodes[LookupIno(name)].oi_ftype = OSPFS_FTYPE_SYMLINK
    /\ \E r \in {ospfs_follow_link(Disk, LookupIno(name), uid)} :
         Commit(Disk, [FSCall("follow", LookupIno(name), name, uid, 0, r.r) EXCEPT
                         !.out = r.link, !.seq = last.seq])

WriteFile ==
  /\ last.seq < MaxOps
  /\ \E name \in Names, count \in FSSizes, append \in BOOLEAN,
        ub \in UBOutcomes, wild \in WildBlocks :
       /\ IsRegular(LookupIno(name))
       /\ \E w \in {ospfs_write(Disk, LookupIno(name), Buf(count), 0, append, ub, wild)} :
            Commit(w.d, [FSCall("write", LookupIno(name), name, 0, count, w.r)
                           EXCEPT !.append = append, !.pos = w.pos])

Truncate ==
  /\ last.seq < MaxOps
  /\ \E name \in Names, ia_size \in FSSizes, ub \in UBOutcomes, wild \in WildBlocks :
       /\ IsRegular(LookupIno(name))
       /\ \E c \in {ospfs_notify_change(Disk, LookupIno(name), ia_size, ub, wild)} :
            Commit(c.d, FSCall("truncate", LookupIno(name), name, ia_size, 0, c.r))

Next == Create \/ Link \/ Unlink \/ Symlink \/ FollowLink \/ WriteFile \/ Truncate

Spec == Init /\ [][Next]_vars

(***************************************************************************)
(* SpecDamaged: the size engine on an image that was damaged before it was *)
(* loaded.  The file's size says its last block lies behind an index       *)
(* block, and the pointer to that index block is 0: oi_indirect ("i"),     *)
(* oi_indirect2 ("ii"), or the slot of the doubly-indirect block that      *)
(* names the last indirect block ("slot").  Block 0 is the boot sector;    *)
(* its words are whatever the image holds.                                 *)
(***************************************************************************)
Damages == {"i", "ii", "slot"}

DamagedInode(n, size, kind) ==
  [BuiltInode(n, size) EXCEPT
     !.oi_indirect = IF kind = "i" THEN 0 ELSE @,
     !.oi_indirect2 = IF kind = "ii" THEN 0 ELSE @]

DamagedPtrs(n, kind, boot) ==
  [b \in BlockDom |->
     IF b = 0 THEN [j \in 0 .. (OSPFS_NINDIRECT - 1) |-> boot]
     ELSE IF b = BuiltIndirect2 /\ kind = "slot"
     THEN [BuiltPtrs(n)[b] EXCEPT ![indir_index(n - 1)] = 0]
     ELSE BuiltPtrs(n)[b]]

InitDamaged ==
  \E n \in (OSPFS_NDIRECT + 1) .. OSPFS_MAXFILEBLKS, f \in 0 .. MaxFree :
    \E size \in WantSizes, kind \in Damages, boot \in WildBlocks :
      /\ size <= OSPFS_MAXFILEBLKS * OSPFS_BLKSIZE
      /\ ospfs_size2nblocks(size) = n
      /\ kind = "i" => n <= OSPFS_NDIRECT + OSPFS_NINDIRECT
      /\ kind # "i" => n > OSPFS_NDIRECT + OSPFS_NINDIRECT
      /\ freemap = [b \in AllBlocks |-> b >= BuiltEnd(n) /\ b < BuiltEnd(n) + f]
      /\ inodes = [i \in InoSlots |->
                     IF i = OSPFS_ROOT_INO THEN RootInode
                     ELSE IF i = FileIno THEN DamagedInode(n, size, kind)
                     ELSE FreeInode]
      /\ ptrs = DamagedPtrs(n, kind, boot)
      /\ data = BuiltBytes(n)
      /\ dents = [b \in BlockDom |-> ZeroDents]
      /\ last = NoCall

\* the two block operations, as change_size calls them
NextDamaged == AddBlock \/ RemoveBlock

SpecDamaged == InitDamaged /\ [][NextDamaged]_vars

(***************************************************************************)
(* SpecAlloc: the bitmap allocator by itself.  The image starts with every *)
(* block before the first data block marked allocated; the callers hand    *)
(* free_block block numbers from the whole image and one past it, and the  *)
(* block they were just given.                                             *)
(***************************************************************************)
FreeArgs ==
  {0, OSPFS_FREEMAP_BLK, os_firstinob, FirstData - 1, FirstData, FirstData + 1,
   os_nblocks - 1, os_nblocks}

InitAlloc ==
  \E f \in 0 .. MaxFree, skip \in 0 .. 1 :
    /\ freemap = [b \in AllBlocks |-> b >= FirstData + skip /\ b < FirstData + skip + f]
    /\ inodes = [i \in InoSlots |-> IF i = OSPFS_ROOT_INO THEN RootInode ELSE FreeInode]
    /\ ptrs = [b \in BlockDom |-> ZeroPtrs]
    /\ data = [b \in BlockDom |-> ZeroData]
    /\ dents = [b \in BlockDom |-> ZeroDents]
    /\ last = NoCall

AllocateBlock ==
  \E a \in {allocate_block(freemap)} :
    Commit([Disk EXCEPT !.freemap = a.fm], Call("allocate_block", 0, 0, a.r, 0))

FreeBlock ==
  \E blockno \in FreeArgs \cup (IF last.op = "allocate_block" THEN {last.ret} ELSE {}) :
    \E fm \in {free_block(freemap, blockno)} :
      Commit([Disk EXCEPT !.freemap = fm], Call("free_block", 0, blockno, 0, 0))

NextAlloc == AllocateBlock \/ FreeBlock

SpecAlloc == InitAlloc /\ [][NextAlloc]_vars

(***************************************************************************)
(* What the claims speak about: block references, well-formed files.       *)
(***************************************************************************)
DiskNext == [freemap |-> freemap', inodes |-> inodes', ptrs |-> ptrs',
             data |-> data', dents |-> dents']

\* ceil(size / BLKSIZE), without the wrap of ospfs_size2nblocks
CeilBlocks(size) == (size + OSPFS_BLKSIZE - 1) \div OSPFS_BLKSIZE

\* the slots of the pointer block b (none if b is no block of the image)
SlotsOf(d, b) ==
  IF b \in BlockDom /\ b # 0
  THEN {<<j, d.ptrs[b][j]>> : j \in 0 .. (OSPFS_NINDIRECT - 1)}
  ELSE {}

\* the references of a file or directory inode, as <<place, block>>:
\* place <<"d", k>> direct slot k, <<"i">> indirect, <<"i", j>> its slot j,
\* <<"ii">> indirect2, <<"ii", k>> its slot k, <<"ii", k, j>> a leaf slot
DirectRefs(oi) == {<<<<"d", k>>, oi.oi_direct[k]>> : k \in 0 .. (OSPFS_NDIRECT - 1)}
IndirectRefs(d, oi) ==
  {<<<<"i">>, oi.oi_indirect>>}
    \cup {<<<<"i", s[1]>>, s[2]>> : s \in SlotsOf(d, oi.oi_indirect)}
Indirect2Refs(d, oi) ==
  {<<<<"ii">>, oi.oi_indirect2>>}
    \cup {<<<<"ii", s[1]>>, s[2]>> : s \in SlotsOf(d, oi.oi_indirect2)}
    \cup UNION {{<<<<"ii", s[1], t[1]>>, t[2]>> : t \in SlotsOf(d, s[2])}
                  : s \in SlotsOf(d, oi.oi_indirect2)}
Refs(d, oi) ==
  {r \in DirectRefs(oi) \cup IndirectRefs(d, oi) \cup Indirect2Refs(d, oi) : r[2] # 0}
RefBlocks(d, oi) == {r[2] : r \in Refs(d, oi)}

\* the places a file of n blocks uses
PlacesOf(n) ==
  {<<"d", k>> : k \in {k \in 0 .. (OSPFS_NDIRECT - 1) : k < n}}
    \cup (IF n > OSPFS_NDIRECT THEN {<<"i">>} ELSE {})
    \cup {<<"i", j>> : j \in {j \in 0 .. (OSPFS_NINDIRECT - 1) : OSPFS_NDIRECT + j < n}}
    \cup (IF n > OSPFS_NDIRECT + OSPFS_NINDIRECT THEN {<<"ii">>} ELSE {})
    \cup {<<"ii", k>> : k \in {k \in 0 .. (OSPFS_NINDIRECT - 1) :
                                 OSPFS_NDIRECT + OSPFS_NINDIRECT + k * OSPFS_NINDIRECT < n}}
    \cup {<<"ii", kj[1], kj[2]>> :
            kj \in {kj \in (0 .. (OSPFS_NINDIRECT - 1)) \X (0 .. (OSPFS_NINDIRECT - 1)) :
                      OSPFS_NDIRECT + OSPFS_NINDIRECT + kj[1] * OSPFS_NINDIRECT + kj[2] < n}}

\* data and index blocks a file of n blocks holds
NeededBlocks(n) == Cardinality(PlacesOf(n))

\* a well-formed file: exactly the places its size needs are in use, each
\* names an allocated data block, and no block is named twice
WellFormed(d, oi) ==
  /\ oi.oi_size <= OSPFS_MAXFILEBLKS * OSPFS_BLKSIZE
  /\ {r[1] : r \in Refs(d, oi)} = PlacesOf(CeilBlocks(oi.oi_size))
  /\ \A r \in Refs(d, oi) : r[2] \in DataBlocks /\ ~d.freemap[r[2]]
  /\ Cardinality(RefBlocks(d, oi)) = Cardinality(Refs(d, oi))

FreeCount(d) == Cardinality({b \in AllBlocks : d.freemap[b]})

\* a change_size call that had to grow the file
GrowCall(call, oi) ==
  /\ call.op = "change_size"
  /\ ospfs_size2nblocks(oi.oi_size) < ospfs_size2nblocks(call.a)

(***************************************************************************)
(* C1. A change_size call that grows a well-formed file and returns        *)
(* -ENOSPC leaves the inode (size, direct, indirect, indirect2) and the    *)
(* free bitmap exactly as they were before the call.                       *)
(***************************************************************************)
C1_NoSpaceRollsBack ==
  [][(/\ GrowCall(last', inodes[FileIno])
      /\ WellFormed(Disk, inodes[FileIno])
      /\ last'.ret = ENOSPC)
     => (inodes'[FileIno] = inodes[FileIno] /\ freemap' = freemap)]_vars

(***************************************************************************)
(* C4. Invariant I3: in every state returned to the caller (success or     *)
(* -ENOSPC) a file of at most ND blocks of bytes has no indirect and no    *)
(* indirect2 block, and one of at most ND+NI blocks has no indirect2.      *)
(***************************************************************************)
C4_NoIndexBlockUnlessNeeded ==
  LET oi == inodes[FileIno]
  IN (last.ret = 0 \/ last.ret = ENOSPC) =>
       /\ (oi.oi_size <= OSPFS_NDIRECT * OSPFS_BLKSIZE
             => oi.oi_indirect = 0 /\ oi.oi_indirect2 = 0)
       /\ (oi.oi_size <= (OSPFS_NDIRECT + OSPFS_NINDIRECT) * OSPFS_BLKSIZE
             => oi.oi_indirect2 = 0)

(***************************************************************************)
(* C5. ceil(size / BLKSIZE) equals the number of non-zero direct slots     *)
(* plus non-zero slots of the indirect block plus non-zero leaf slots      *)
(* under the doubly-indirect block.                                        *)
(***************************************************************************)
DataRefs(d, oi) ==
  {r \in Refs(d, oi) : r[1][1] = "d" \/ (r[1][1] = "i" /\ Len(r[1]) = 2)
                        \/ (r[1][1] = "ii" /\ Len(r[1]) = 3)}

C5_SizeCountsDataSlots ==
  LET oi == inodes[FileIno]
  IN CeilBlocks(oi.oi_size) = Cardinality(DataRefs(Disk, oi))

(***************************************************************************)
(* C6. change_size(oi, target) on a well-formed file, with target at most  *)
(* MAXFILEBLKS blocks and enough free blocks for the data and index blocks *)
(* it adds, returns 0, sets the size to target, and every file block below *)
(* ceil(target / BLKSIZE) then resolves to a non-zero allocated block.     *)
(***************************************************************************)
C6_ChangeSizeReachesTarget ==
  [][(/\ last'.op = "change_size"
      /\ WellFormed(Disk, inodes[FileIno])
      /\ CeilBlocks(last'.a) <= OSPFS_MAXFILEBLKS
      /\ FreeCount(Disk) >= NeededBlocks(CeilBlocks(last'.a))
                              - NeededBlocks(CeilBlocks(inodes[FileIno].oi_size)))
     => (/\ last'.ret = 0
         /\ inodes'[FileIno].oi_size = last'.a
         /\ \A b \in 0 .. (CeilBlocks(last'.a) - 1) :
              LET blk == ospfs_inode_blockno(DiskNext, inodes'[FileIno], b * OSPFS_BLKSIZE, 0)
              IN blk \in DataBlocks /\ ~freemap'[blk])]_vars

(***************************************************************************)
(* C7. After change_size(oi, 0) on a well-formed file the size is 0, every *)
(* direct slot, indirect and indirect2 are 0, and every block the file     *)
(* referenced (data, indirect, doubly-indirect) is free in the bitmap.     *)
(***************************************************************************)
C7_TruncateToZeroFreesAll ==
  [][(/\ last'.op = "change_size"
      /\ last'.a = 0
      /\ WellFormed(Disk, inodes[FileIno]))
     => (/\ inodes'[FileIno].oi_size = 0
         /\ Refs(DiskNext, inodes'[FileIno]) = {}
         /\ \A b \in RefBlocks(Disk, inodes[FileIno]) : freemap'[b])]_vars

\* byte i of the file as the block index resolves it, -1 where it resolves
\* to no block
ByteAt(d, oi, i) ==
  LET blockno == ospfs_inode_blockno(d, oi, i, 0)
  IN IF blockno = 0 THEN -1 ELSE d.data[blockno][i % OSPFS_BLKSIZE]

(***************************************************************************)
(* C8. Write-then-read round trip: after write(pos = 0, B, no append) has  *)
(* left the file with size |B|, read(pos = 0, count = size) returns        *)
(* exactly B.                                                              *)
(***************************************************************************)
C8_WriteReadRoundTrip ==
  [][(/\ last.op = "write" /\ ~last.append /\ last.a = 0
      /\ inodes[FileIno].oi_size = last.n
      /\ last'.op = "read" /\ last'.a = 0 /\ last'.n = inodes[FileIno].oi_size)
     => (last'.ret = last.n /\ last'.out = Buf(last.n))]_vars

C10_WriteOverflowIsIO ==
  [][(/\ last'.op = "write"
      /\ (IF last'.append THEN inodes[FileIno].oi_size ELSE last'.a) + last'.n
           >= UINT32_MOD)
     => last'.ret = EIO]_vars

(***************************************************************************)
(* C11. A read at a position at or past the size returns 0 bytes and       *)
(* leaves the position where it was; any other read returns                *)
(* min(count, size - pos) bytes, which are the file's bytes at             *)
(* [pos, pos + returned), and advances the position by that number.        *)
(***************************************************************************)
C11_ReadReturnsFileBytes ==
  [][(last'.op = "read")
     => LET oi == inodes[FileIno]
            pos == last'.a
            want == IF pos >= oi.oi_size THEN 0
                    ELSE MinOf(last'.n, oi.oi_size - pos)
        IN /\ last'.ret = want
           /\ last'.pos = pos + want
           /\ last'.out = [i \in 1 .. want |-> ByteAt(Disk, oi, pos + i - 1)]]_vars

\* inodes in use as a regular file or a directory
InUseFiles ==
  {i \in Inos : inodes[i].oi_nlink # 0 /\ inodes[i].oi_ftype # OSPFS_FTYPE_SYMLINK}

(***************************************************************************)
(* C2. Invariant I1: after any sequence of create, link, unlink, symlink,  *)
(* write and truncate calls the data blocks whose bitmap bit is 0 are      *)
(* exactly the blocks some file or directory inode references through a    *)
(* direct slot, its indirect or indirect2 pointer, or a slot of an         *)
(* indirect or doubly-indirect block.                                      *)
(***************************************************************************)
C2_BitmapMatchesReferences ==
  {b \in DataBlocks : ~freemap[b]}
    = UNION {RefBlocks(Disk, inodes[i]) :
               i \in {i \in Inos : inodes[i].oi_ftype # OSPFS_FTYPE_SYMLINK}}

(***************************************************************************)
(* C3. Invariant I2: every non-zero block number held by an in-use file or *)
(* directory inode (direct slot, indirect, indirect2, slot of an indirect  *)
(* or doubly-indirect block) names a data block whose bitmap bit is 0.     *)
(***************************************************************************)
C3_ReferencesAreAllocated ==
  \A i \in InUseFiles :
    \A b \in RefBlocks(Disk, inodes[i]) : b \in DataBlocks /\ ~freemap[b]

(***************************************************************************)
(* C12. A create that returns 0 took the lowest inode >= 2 whose nlink was *)
(* 0, left it with size 0, type regular, nlink 1 and the mode passed, and  *)
(* put its number and the name into an entry of the directory that was     *)
(* blank or new, so that a look-up of the name now gives that inode.  A    *)
(* create of a new name of legal length when no inode >= 2 has nlink 0     *)
(* returns -ENOSPC.                                                        *)
(***************************************************************************)
C12_CreateTakesLowestFreeInode ==
  [][(last'.op = "create")
     => LET free == {i \in 2 .. (os_ninodes - 1) : inodes[i].oi_nlink = 0}
            name == last'.name
            root == inodes'[OSPFS_ROOT_INO]
            off == find_direntry(DiskNext, root, name)
            od == ospfs_inode_data(DiskNext, root, off)
        IN /\ last'.ret = 0 =>
                /\ free # {}
                /\ \A i \in free : Min(free) <= i
                /\ inodes'[Min(free)] =
                     [inodes[Min(free)] EXCEPT !.oi_size = 0,
                                               !.oi_ftype = OSPFS_FTYPE_REG,
                                               !.oi_nlink = 1,
                                               !.oi_mode = Mode]
                /\ off # -1
                /\ dents'[od.blk][od.k] = [od_ino |-> Min(free), od_name |-> name]
                /\ dents[od.blk][od.k].od_ino = 0
                /\ ospfs_dir_lookup(DiskNext, OSPFS_ROOT_INO, name) = Min(free)
           /\ (/\ free = {}
               /\ Len(name) <= OSPFS_MAXNAMELEN
               /\ ospfs_dir_lookup(Disk, OSPFS_ROOT_INO, name) = 0)
                => last'.ret = ENOSPC]_vars

\* a create whose entry went into a block the directory had to grow by
C12_Witness ==
  /\ last.op = "create" /\ last.ret = 0
  /\ ospfs_dir_lookup(Disk, OSPFS_ROOT_INO, last.name) > FileIno
  /\ inodes[OSPFS_ROOT_INO].oi_size = 2 * OSPFS_BLKSIZE

(***************************************************************************)
(* C13. create, link and symlink return -EEXIST when the directory holds a *)
(* non-empty entry with the name, and -ENAMETOOLONG when the name is       *)
(* longer than OSPFS_MAXNAMELEN; either way the directory, the inode table *)
(* and the bitmap are as before the call.                                  *)
(***************************************************************************)
C13_ExistAndTooLongChangeNothing ==
  [][(last'.op \in {"create", "link", "symlink"})
     => LET name == last'.name
            same == /\ freemap' = freemap /\ inodes' = inodes
                    /\ dents' = dents /\ ptrs' = ptrs
        IN /\ Len(name) > OSPFS_MAXNAMELEN
                => (last'.ret = ENAMETOOLONG /\ same)
           /\ (/\ Len(name) <= OSPFS_MAXNAMELEN
               /\ find_direntry(Disk, inodes[OSPFS_ROOT_INO], name) # -1)
                => (last'.ret = EEXIST /\ same)]_vars

\* a symlink refused because the name is taken
C13_Witness == last.op = "symlink" /\ last.ret = EEXIST

\* the inode ino keeps its size and block pointers over the step, and the
\* blocks it refers to keep their contents and their bitmap bits
FileSame(ino) ==
  /\ inodes'[ino] = [inodes[ino] EXCEPT !.oi_nlink = inodes'[ino].oi_nlink]
  /\ \A b \in RefBlocks(Disk, inodes[ino]) \cap BlockDom :
       ptrs'[b] = ptrs[b] /\ data'[b] = data[b] /\ freemap'[b] = freemap[b]

C15_LinkOnlyRegularFiles ==
  [][(last'.op = "link" /\ inodes[last'.ino].oi_ftype # OSPFS_FTYPE_REG)
     => /\ last'.ret < 0
        /\ dents' = dents
        /\ \A i \in Inos : inodes'[i].oi_nlink = inodes[i].oi_nlink]_vars

(***************************************************************************)
(* C16. An unlink of a name the directory holds sets that entry's inode    *)
(* number to 0 and lowers the inode's nlink by one.  If nlink is then 0    *)
(* and the inode is no symlink, its size is 0, it refers to no block and   *)
(* every block it referred to is free in the bitmap; if nlink is still     *)
(* above 0, size, block references and blocks are as before.  An unlink of *)
(* a name the directory does not hold returns -ENOENT and changes nothing. *)
(***************************************************************************)
C16_UnlinkReleasesAtZero ==
  [][(last'.op = "unlink")
     => LET root == inodes[OSPFS_ROOT_INO]
            off == find_direntry(Disk, root, last'.name)
            od == ospfs_inode_data(Disk, root, off)
            ino == last'.ino
        IN IF off = -1
           THEN /\ last'.ret = ENOENT
                /\ DiskNext = Disk
           ELSE /\ last'.ret = 0
                /\ dents'[od.blk][od.k].od_ino = 0
                /\ inodes'[ino].oi_nlink = inodes[ino].oi_nlink - 1
                /\ (inodes'[ino].oi_nlink = 0
                      /\ inodes[ino].oi_ftype # OSPFS_FTYPE_SYMLINK)
                     => /\ inodes'[ino].oi_size = 0
                        /\ Refs(DiskNext, inodes'[ino]) = {}
                        /\ \A b \in RefBlocks(Disk, inodes[ino]) \cap AllBlocks :
                             freemap'[b]
                /\ inodes'[ino].oi_nlink > 0 => FileSame(ino)]_vars

(***************************************************************************)
(* C17. Over every unlink call the nlink of the parent directory's inode   *)
(* is the same after the call as before it.                                *)
(***************************************************************************)
C17_UnlinkKeepsDirNlink ==
  [][(last'.op = "unlink")
     => inodes'[OSPFS_ROOT_INO].oi_nlink = inodes[OSPFS_ROOT_INO].oi_nlink]_vars

(***************************************************************************)
(* C18. Invariant I7: after any sequence of create, link, symlink and      *)
(* unlink calls the root directory's inode and every inode a non-empty     *)
(* entry of the root directory refers to have nlink >= 1.                  *)
(***************************************************************************)
C18_ReferencedInodesHaveLinks ==
  /\ inodes[OSPFS_ROOT_INO].oi_nlink >= 1
  /\ \A off \in EntryOffsets(inodes[OSPFS_ROOT_INO]) :
       LET od == EntryAt(Disk, ospfs_inode_data(Disk, inodes[OSPFS_ROOT_INO], off))
       IN od.od_ino # 0 => inodes[od.od_ino].oi_nlink >= 1

\* what the codec is to store for a target: the bytes, and the size
Encoded(t) ==
  LET qmark == strpbrk(t, QMARK)
      colon == strpbrk(t, COLON)
      root_path == SubSeq(t, qmark + 1, colon - 1)
      other_path == SubSeq(t, colon + 1, Len(t))
  IN IF qmark # 0 /\ colon # 0 /\ qmark < colon
     THEN [bytes |-> <<QMARK>> \o root_path \o <<0, COLON>> \o other_path \o <<0>>,
           size |-> Len(root_path) + Len(other_path) + 3,
           conditional |-> TRUE, root_path |-> root_path, other_path |-> other_path]
     ELSE [bytes |-> t \o <<0>>, size |-> Len(t),
           conditional |-> FALSE, root_path |-> <<>>, other_path |-> <<>>]

(***************************************************************************)
(* C19. After a symlink call that returns 0 the new inode holds, for a     *)
(* target <prefix>?<root_path>:<other_path> (first '?' before first ':'),  *)
(* exactly '?' root_path NUL ':' other_path NUL with size                  *)
(* |root_path| + |other_path| + 3, and for any other target the target     *)
(* followed by NUL with size |target|.                                     *)
(***************************************************************************)
C19_SymlinkStoresEncodedTarget ==
  [][(last'.op = "symlink" /\ last'.ret = 0)
     => LET e == Encoded(last'.out)
        IN /\ inodes'[last'.ino].oi_size = e.size
           /\ inodes'[last'.ino].oi_ftype = OSPFS_FTYPE_SYMLINK
           /\ \A k \in 1 .. Len(e.bytes) :
                SymlinkByte(DiskNext, last'.ino, k - 1) = e.bytes[k]]_vars

\* a conditional target with a prefix was stored
C19_Witness ==
  /\ last.op = "symlink" /\ last.ret = 0
  /\ last.out = <<114, QMARK, 97, COLON, 98>>
  /\ inodes[last.ino].oi_size = 5

(***************************************************************************)
(* C20. Resolving a symlink that was created from                          *)
(* <prefix>?<root_path>:<other_path> gives root_path to uid 0 and          *)
(* other_path to every other uid; resolving one created from a target that *)
(* does not start with '?' gives that target to every uid; resolving, for  *)
(* a uid other than 0, stored bytes that start with '?' but have no ':'    *)
(* right after the inner NUL returns -EIO.                                 *)
(***************************************************************************)
C20_ResolveByUid ==
  [][(last'.op = "follow")
     => \A m \in {m \in last.made : m[1] = last'.ino} :
          LET t == m[2]
              e == Encoded(t)
              uid == last'.a
          IN /\ e.conditional
                  => /\ last'.ret = 0
                     /\ last'.out = IF uid = 0 THEN e.root_path ELSE e.other_path
             /\ t[1] # QMARK /\ ~e.conditional
                  => (last'.ret = 0 /\ last'.out = t)
             /\ (/\ ~e.conditional /\ t[1] = QMARK /\ uid # 0
                 /\ SymlinkByte(Disk, last'.ino, Len(t) + 1) # COLON)
                  => last'.ret = EIO]_vars

(***************************************************************************)
(* C21. A symlink call that returns 0 has stored a target that, with its   *)
(* NUL terminators, fits in the OSPFS_MAXSYMLINKLEN + 1 bytes of           *)
(* oi_symlink, and has changed no inode other than the new one and the     *)
(* directory; a call whose encoded target does not fit returns an error    *)
(* (-ENAMETOOLONG unless the name or the space check fails first).         *)
(***************************************************************************)
C21_SymlinkStaysInItsInode ==
  [][(last'.op = "symlink")
     => LET e == Encoded(last'.out)
        IN /\ last'.ret = 0
                => /\ Len(e.bytes) <= OSPFS_MAXSYMLINKLEN + 1
                   /\ \A t \in InoSlots \ {last'.ino, OSPFS_ROOT_INO} :
                        inodes'[t] = inodes[t]
           /\ Len(e.bytes) > OSPFS_MAXSYMLINKLEN + 1
                => last'.ret \in {ENAMETOOLONG, EEXIST, ENOSPC}]_vars

\* the number of entries the root directory's size covers, and the e-th
RootEntries == inodes[OSPFS_ROOT_INO].oi_size \div OSPFS_DIRENTRY_SIZE
RootEntry(e) ==
  EntryAt(Disk, ospfs_inode_data(Disk, inodes[OSPFS_ROOT_INO], e * OSPFS_DIRENTRY_SIZE))
KindOf(ino) ==
  IF inodes[ino].oi_ftype = OSPFS_FTYPE_REG THEN DT_REG
  ELSE IF inodes[ino].oi_ftype = OSPFS_FTYPE_DIR THEN DT_DIR
  ELSE IF inodes[ino].oi_ftype = OSPFS_FTYPE_SYMLINK THEN DT_LNK
  ELSE 0

\* what readdir is to emit at cursor c
EmittedRight(f) ==
  IF f.pos = 0 THEN f.name = DotName /\ f.ino = OSPFS_ROOT_INO /\ f.type = DT_DIR
  ELSE IF f.pos = 1
  THEN f.name = DotDotName /\ f.ino = OSPFS_ROOT_INO /\ f.type = DT_DIR
  ELSE /\ f.pos - 2 < RootEntries
       /\ RootEntry(f.pos - 2).od_ino # 0
       /\ f.name = RootEntry(f.pos - 2).od_name
       /\ f.ino = RootEntry(f.pos - 2).od_ino
       /\ f.type = KindOf(f.ino)

(***************************************************************************)
(* C22. A readdir call that starts at cursor k leaves a cursor that is not *)
(* lower; what it emits, in rising cursor order from k on, is "." at       *)
(* cursor 0, ".." at cursor 1 and entry c - 2 at a cursor c >= 2, with the *)
(* entry's name, inode number and kind, and never an entry whose inode     *)
(* number is 0; unless the consumer stopped it, it returns 1 (end of       *)
(* directory) exactly when the cursor it leaves, c, has c >= 2 and         *)
(* (c - 2) * OSPFS_DIRENTRY_SIZE >= the directory's size.                  *)
(***************************************************************************)
C22_ReaddirWalksTheEntries ==
  [][(last'.op = "readdir")
     => LET k == last'.a
            out == last'.out
            atEnd == /\ last'.pos >= 2
                     /\ (last'.pos - 2) * OSPFS_DIRENTRY_SIZE
                          >= inodes[OSPFS_ROOT_INO].oi_size
        IN /\ last'.pos >= k
           /\ \A i \in 1 .. Len(out) :
                /\ out[i].pos >= k /\ out[i].pos <= last'.pos
                /\ i > 1 => out[i].pos > out[i - 1].pos
                /\ EmittedRight(out[i])
           /\ last'.ret = 1 => atEnd
           /\ (atEnd /\ Len(out) <= last'.n) => last'.ret = 1]_vars

(***************************************************************************)
(* C23. A host that keeps calling readdir on a directory, each call        *)
(* starting where the last one stopped, eventually gets end of directory   *)
(* (return value 1), also when an entry leads to an inode whose type is    *)
(* unknown: readdir moves the cursor past such an entry.                   *)
(***************************************************************************)
C23_ReaddirReachesTheEnd ==
  <>(last.op = "readdir" /\ last.ret = 1)

(***************************************************************************)
(* C24. Invariant I4: after every call each in-use file or directory inode *)
(* has non-zero block numbers only in the places its size needs.  The      *)
(* inode a create that returns 0 hands out has every direct slot, indirect *)
(* and indirect2 equal to 0, whatever the inode held before, and the first *)
(* write to it, when enough blocks are free, writes all its bytes.         *)
(***************************************************************************)
C24_UnusedSlotsAreZero ==
  [][/\ \A i \in {i \in Inos : /\ inodes'[i].oi_nlink # 0
                                /\ inodes'[i].oi_ftype # OSPFS_FTYPE_SYMLINK} :
          {r[1] : r \in Refs(DiskNext, inodes'[i])}
            \subseteq PlacesOf(CeilBlocks(inodes'[i].oi_size))
     /\ (last'.op = "create" /\ last'.ret = 0)
          => LET oi == inodes'[ospfs_dir_lookup(DiskNext, OSPFS_ROOT_INO, last'.name)]
             IN /\ \A k \in 0 .. (OSPFS_NDIRECT - 1) : oi.oi_direct[k] = 0
                /\ oi.oi_indirect = 0 /\ oi.oi_indirect2 = 0
     /\ (/\ last.op = "create" /\ last.ret = 0
         /\ last'.op = "write"
         /\ last'.ino = ospfs_dir_lookup(Disk, OSPFS_ROOT_INO, last.name)
         /\ FreeCount(Disk) >= NeededBlocks(CeilBlocks(last'.n)))
          => last'.ret = last'.n]_vars

C26_AddBlockErrorRollsBack ==
  [][(last'.op = "add_block" /\ last'.ret \in {ENOSPC, EIO})
     => (inodes'[FileIno] = inodes[FileIno] /\ freemap' = freemap)]_vars

\* the place of file block b in the index
PlaceOfBlock(b) ==
  IF b < OSPFS_NDIRECT THEN <<"d", b>>
  ELSE IF b < OSPFS_NDIRECT + OSPFS_NINDIRECT THEN <<"i", b - OSPFS_NDIRECT>>
  ELSE <<"ii", indir_index(b), direct_index(b)>>

\* an add_block call on a well-formed file of n blocks
AddBlockOn(n) ==
  /\ last'.op = "add_block"
  /\ WellFormed(Disk, inodes[FileIno])
  /\ ospfs_size2nblocks(inodes[FileIno].oi_size) = n

\* the file grew by exactly block n: the places of n+1 blocks are in use,
\* every earlier reference is as before, the blocks taken are exactly the
\* new references, the new data block is all zero and a new index block
\* holds nothing but what was linked into it
GrewByOne(n) ==
  LET old == Refs(Disk, inodes[FileIno])
      new == Refs(DiskNext, inodes'[FileIno])
      got == {r[2] : r \in new \ old}
  IN /\ inodes'[FileIno].oi_size = (n + 1) * OSPFS_BLKSIZE
     /\ {r[1] : r \in new} = PlacesOf(n + 1)
     /\ old \subseteq new
     /\ got = {b \in AllBlocks : freemap[b] /\ ~freemap'[b]}
     /\ \A b \in AllBlocks : freemap'[b] => freemap[b]
     /\ \A r \in new \ old :
          IF r[1] = PlaceOfBlock(n) THEN data'[r[2]] = ZeroData
          ELSE \A j \in 0 .. (OSPFS_NINDIRECT - 1) :
                 ptrs'[r[2]][j] # 0 => ptrs'[r[2]][j] \in got

(***************************************************************************)
(* C27. add_block on a well-formed file of n < OSPFS_MAXFILEBLKS blocks,   *)
(* with enough free blocks for the data block and the index blocks it      *)
(* needs, returns 0: the size is (n+1)*OSPFS_BLKSIZE, the new blocks are   *)
(* zero-filled and linked at their places, earlier references are as       *)
(* before.  At n = OSPFS_MAXFILEBLKS it returns -ENOSPC and changes        *)
(* nothing.  It returns nothing but 0, -ENOSPC or -EIO.                    *)
(***************************************************************************)
C27_AddBlockGrowsByOne ==
  [][\A n \in 0 .. OSPFS_MAXFILEBLKS :
       AddBlockOn(n) =>
         /\ last'.ret \in {0, ENOSPC, EIO}
         /\ (n < OSPFS_MAXFILEBLKS
               /\ FreeCount(Disk) >= NeededBlocks(n + 1) - NeededBlocks(n))
              => (last'.ret = 0 /\ GrewByOne(n))
         /\ n = OSPFS_MAXFILEBLKS
              => (last'.ret = ENOSPC /\ inodes' = inodes /\ freemap' = freemap
                  /\ ptrs' = ptrs /\ data' = data)]_vars

\* a remove_block call on a well-formed file of n blocks
RemoveBlockOn(n) ==
  /\ last'.op = "remove_block"
  /\ WellFormed(Disk, inodes[FileIno])
  /\ ospfs_size2nblocks(inodes[FileIno].oi_size) = n

\* the file lost exactly block n-1: the references left are those at the
\* places of n-1 blocks, unchanged; the blocks that went (the data block, the
\* indirect block if the slot was its slot 0, the indirect2 block if that
\* indirect block was its slot 0) are free again and no other bit changed
ShrankByOne(n) ==
  LET old == Refs(Disk, inodes[FileIno])
      new == Refs(DiskNext, inodes'[FileIno])
      gone == {r[2] : r \in old \ new}
  IN /\ inodes'[FileIno].oi_size = (n - 1) * OSPFS_BLKSIZE
     /\ new = {r \in old : r[1] \in PlacesOf(n - 1)}
     /\ freemap' = [b \in AllBlocks |-> freemap[b] \/ b \in gone]

(***************************************************************************)
(* C28. remove_block on a well-formed file of n >= 1 blocks returns 0,     *)
(* frees the last data block and zeroes its slot, frees the indirect block *)
(* when that slot was its slot 0 and the indirect2 block when that         *)
(* indirect block was its slot 0, and sets the size to                     *)
(* (n-1)*OSPFS_BLKSIZE; no other reference and no other bitmap bit         *)
(* changes.  On a file of 0 blocks it returns 0 and changes nothing.       *)
(***************************************************************************)
C28_RemoveBlockShrinksByOne ==
  [][\A n \in 0 .. OSPFS_MAXFILEBLKS :
       RemoveBlockOn(n) =>
         /\ last'.ret = 0
         /\ n >= 1 => ShrankByOne(n)
         /\ n = 0 => (inodes' = inodes /\ freemap' = freemap
                      /\ ptrs' = ptrs /\ data' = data)]_vars

\* the index block that remove_block needs for the last block of the file
\* is missing: oi_indirect in the indirect region, oi_indirect2 or the slot
\* of the indirect block in the doubly-indirect region
IndexMissing(d, oi) ==
  LET n0 == ospfs_size2nblocks(oi.oi_size)
      n == n0 - 1
  IN /\ n0 >= 1
     /\ n0 <= OSPFS_MAXFILEBLKS
     /\ indir_index(n) # -1
     /\ IF indir2_index(n) = -1 THEN oi.oi_indirect = 0
        ELSE \/ oi.oi_indirect2 = 0
             \/ d.ptrs[oi.oi_indirect2][indir_index(n)] = 0

(***************************************************************************)
(* C29. remove_block returns -EIO and leaves the size and the free bitmap  *)
(* unchanged when the last block is in the indirect region but oi_indirect *)
(* is 0, or in the doubly-indirect region but oi_indirect2 or the slot of  *)
(* the indirect block it needs is 0.                                       *)
(***************************************************************************)
C29_RemoveBlockMissingIndexIsIO ==
  [][(last'.op = "remove_block" /\ IndexMissing(Disk, inodes[FileIno]))
     => /\ last'.ret = EIO
        /\ inodes'[FileIno].oi_size = inodes[FileIno].oi_size
        /\ freemap' = freemap]_vars

(***************************************************************************)
(* C30. allocate_block returns the lowest-numbered block whose bitmap bit  *)
(* is 1 and clears exactly that bit; when no bit is set it returns 0 and   *)
(* changes nothing; it never returns a block outside the data-block range. *)
(***************************************************************************)
C30_AllocateLowestDataBlock ==
  [][last'.op = "allocate_block" =>
       LET free == {b \in AllBlocks : freemap[b]}
       IN /\ IF free = {} THEN last'.ret = 0 /\ freemap' = freemap
             ELSE /\ last'.ret = Min(free)
                  /\ freemap' = [freemap EXCEPT ![Min(free)] = FALSE]
          /\ last'.ret \in DataBlocks \cup {0}]_vars

(***************************************************************************)
(* C31. free_block(b) changes nothing for every b outside the data-block   *)
(* range (boot block, superblock, bitmap block, every inode block, and     *)
(* b >= os_nblocks); so the bitmap bit of every block that is not a data   *)
(* block stays 0 whatever sequence of allocator calls is made.             *)
(***************************************************************************)
C31_FreeRefusesNonDataBlocks ==
  [][/\ (last'.op = "free_block" /\ last'.a \notin DataBlocks) => freemap' = freemap
     /\ \A b \in AllBlocks \ DataBlocks : ~freemap'[b]]_vars

(***************************************************************************)
(* C32. When allocate_block has returned a block b (so there was a free    *)
(* block) and free_block(b) is the next call, the bitmap is bit for bit    *)
(* what it was before the allocate_block call: b's bit is 1 again and no   *)
(* other bit differs.                                                      *)
(***************************************************************************)
C32_AllocateThenFreeRestores ==
  [][(/\ last.op = "allocate_block" /\ last.ret # 0
      /\ last'.op = "free_block" /\ last'.a = last.ret)
     => freemap' = [freemap EXCEPT ![last.ret] = TRUE]]_vars

\* the entry of the root directory at byte offset off, before and after
RootEntryAt(off) ==
  EntryAt(Disk, ospfs_inode_data(Disk, inodes[OSPFS_ROOT_INO], off))
RootEntryAfter(off) ==
  EntryAt(DiskNext, ospfs_inode_data(DiskNext, inodes'[OSPFS_ROOT_INO], off))

\* offsets of the root directory's blank entries
RootBlanks ==
  {off \in EntryOffsets(inodes[OSPFS_ROOT_INO]) : RootEntryAt(off).od_ino = 0}

\* a call that asks create_blank_direntry for a slot of the root directory:
\* the checks that come before it in create, link and symlink have passed
AsksForEntry ==
  /\ last'.op \in {"create", "link", "symlink"}
  /\ Len(last'.name) <= OSPFS_MAXNAMELEN
  /\ find_direntry(Disk, inodes[OSPFS_ROOT_INO], last'.name) = -1
  /\ last'.op # "link" => find_free_inode(Disk) # 0

(***************************************************************************)
(* C33. create_blank_direntry, as create, link and symlink use it: when    *)
(* the directory has a slot with od_ino = 0 the new entry goes into the    *)
(* first such slot and the directory's size stays; when every slot is in   *)
(* use the directory grows by one block, the new entry is the first entry  *)
(* of the new block and the other slots of that block have od_ino = 0;     *)
(* when the growth fails with -ENOSPC the caller returns -ENOSPC and the   *)
(* directory's size and blocks are unchanged.  Nothing else comes back.    *)
(***************************************************************************)
C33_BlankEntryFirstFreeOrGrow ==
  [][AsksForEntry =>
       LET dir == inodes[OSPFS_ROOT_INO]
           dirAfter == inodes'[OSPFS_ROOT_INO]
       IN /\ last'.ret \in {0, ENOSPC, ENAMETOOLONG}
          /\ (last'.ret = 0 /\ RootBlanks # {})
               => /\ dirAfter.oi_size = dir.oi_size
                  /\ RootEntryAfter(Min(RootBlanks)).od_ino # 0
                  /\ RootEntryAfter(Min(RootBlanks)).od_name = last'.name
          /\ (last'.ret = 0 /\ RootBlanks = {})
               => /\ dirAfter.oi_size = dir.oi_size + OSPFS_BLKSIZE
                  /\ RootEntryAfter(dir.oi_size).od_ino # 0
                  /\ RootEntryAfter(dir.oi_size).od_name = last'.name
                  /\ \A off \in EntryOffsets(dirAfter) :
                       off > dir.oi_size => RootEntryAfter(off).od_ino = 0
          /\ last'.ret = ENOSPC
               => /\ RootBlanks = {}
                  /\ dirAfter.oi_size = dir.oi_size
                  /\ Refs(DiskNext, dirAfter) = Refs(Disk, dir)
                  /\ freemap' = freemap]_vars

(***************************************************************************)
(* C34. ospfs_size2nblocks(size) is ceil(size / OSPFS_BLKSIZE) for every   *)
(* 32-bit size, the sizes within OSPFS_BLKSIZE of the largest one          *)
(* included; so a change_size to such a size never leaves the inode with a *)
(* size larger than the bytes its referenced data blocks cover.            *)
(***************************************************************************)
C34_Size2NblocksIsCeiling ==
  [][last'.op = "change_size" =>
       /\ ospfs_size2nblocks(last'.a) = CeilBlocks(last'.a)
       /\ inodes'[FileIno].oi_size
            <= Cardinality(DataRefs(DiskNext, inodes'[FileIno])) * OSPFS_BLKSIZE]_vars

\* the number of non-empty entries of the root directory that name inode i
EntriesFor(i) ==
  Cardinality({off \in EntryOffsets(inodes[OSPFS_ROOT_INO]) :
                 EntryAt(Disk, ospfs_inode_data(Disk, inodes[OSPFS_ROOT_INO], off)).od_ino = i})

(***************************************************************************)
(* C35. After any sequence of create, link, symlink and unlink calls,      *)
(* failed ones included, the nlink of every regular-file and symlink inode *)
(* is the number of non-empty directory entries that name it; a failed     *)
(* create or symlink leaves no inode with nlink >= 1 that no entry names.  *)
(***************************************************************************)
C35_NlinkCountsEntries ==
  \A i \in Inos \ {0, OSPFS_ROOT_INO} :
    inodes[i].oi_ftype \in {OSPFS_FTYPE_REG, OSPFS_FTYPE_SYMLINK}
      => inodes[i].oi_nlink = EntriesFor(i)

RootHits(name) ==
  {off \in EntryOffsets(inodes[OSPFS_ROOT_INO]) :
     RootEntryAt(off).od_ino # 0 /\ RootEntryAt(off).od_name = name}

Presentable ==
  {c \in 2 .. (RootEntries + 1) :
     /\ RootEntry(c - 2).od_ino # 0
     /\ KindOf(RootEntry(c - 2).od_ino) # 0}

(***************************************************************************)
(* C38. readdir loses no entry.  When the consumer refuses an entry (the   *)
(* filldir call for it returns < 0) the cursor saved is that entry's, so   *)
(* the next call presents it again; and every non-empty entry of a known   *)
(* type that lies between the cursor a call starts at and the cursor it    *)
(* leaves has been accepted by the consumer in that call.  So over a       *)
(* sequence of calls on an unchanging directory each such entry is         *)
(* accepted exactly once before end of directory is returned.              *)
(***************************************************************************)
C38_ReaddirLosesNoEntry ==
  [][(last'.op = "readdir" /\ last'.a <= RootEntries + 2)
     => LET out == last'.out
            accepted == {out[i].pos : i \in 1 .. MinOf(Len(out), last'.n)}
        IN /\ Len(out) > last'.n => last'.pos = out[last'.n + 1].pos
           /\ \A c \in Presentable :
                (last'.a <= c /\ c < last'.pos) => c \in accepted]_vars

(***************************************************************************)
(* C39. A symlink call that returns -ENAMETOOLONG because its target is    *)
(* too long (the name itself is short enough) changes nothing: the parent  *)
(* directory's size, blocks and entries, the bitmap and every inode are    *)
(* what they were before the call.                                         *)
(***************************************************************************)
C39_TargetTooLongChangesNothing ==
  [][(/\ last'.op = "symlink"
      /\ last'.ret = ENAMETOOLONG
      /\ Len(last'.name) <= OSPFS_MAXNAMELEN)
     => DiskNext = Disk]_vars

(***************************************************************************)
(* C40. When change_size grows a file from old_size to new_size and        *)
(* returns 0, every byte at an offset in [old_size, new_size) reads as 0,  *)
(* the bytes of the last block the file already had included (those an     *)
(* earlier shrink within that block cut off).                              *)
(***************************************************************************)
C40_GrowthExposesOnlyZeros ==
  [][(/\ last'.op = "change_size"
      /\ last'.ret = 0
      /\ WellFormed(Disk, inodes[FileIno])
      /\ WellFormed(DiskNext, inodes'[FileIno])
      /\ inodes'[FileIno].oi_size > inodes[FileIno].oi_size)
     => \A i \in inodes[FileIno].oi_size .. (inodes'[FileIno].oi_size - 1) :
          ByteAt(DiskNext, inodes'[FileIno], i) = 0]_vars

====
